---- MODULE Spec2Model ----
(***************************************************************************)
(* Timeline layout engine of PIRA (Project IT Resource Availability).      *)
(*                                                                         *)
(* The repository holds four variants of the application:                  *)
(*   "pira"  src/src/App.tsx (lines 51-118, the date helpers that          *)
(*           src/unnamed/part_000 imports from ./utils/dateMath), with     *)
(*           src/src/utils/dateMath.ts and the Timeline of part_000;       *)
(*   "pm1"   src/src/ProjectManagementApp.tsx lines 1-637;                 *)
(*   "pm2"   src/src/ProjectManagementApp.tsx lines 639-1321;              *)
(*   "pm3"   src/src/ProjectManagementApp.tsx lines 1323-2582.             *)
(* One behaviour of the model is one run of one variant.                   *)
(*                                                                         *)
(* Time.  A JavaScript time value is a number of milliseconds since        *)
(* 1970-01-01T00:00Z.  Every time value the modelled code produces is a    *)
(* whole number of hours, so the model counts time in units of one hour    *)
(* (Unit milliseconds): a model time t stands for t * Unit ms, a day is    *)
(* DAY = MS_PER_DAY / Unit units.  NaN is a reserved value that every      *)
(* arithmetic operator below propagates and every comparison rejects, as   *)
(* IEEE arithmetic does.  Local time is a fixed offset tz (hours) from     *)
(* UTC; zones that change their offset during the year are not modelled.   *)
(***************************************************************************)
EXTENDS Integers, Sequences, FiniteSets, TLC

VARIABLES
    app,        \* which variant of the application is running
    tz,         \* host time zone: local time = UTC + tz hours
    now,        \* the host clock (UTC time value) read by new Date() / todayUTCNoon()
    winStart,   \* pira: Timeline window start (time value or NaN)
    winEnd,     \* pira: Timeline window end
    view,       \* pm1, pm2: ViewState of the active tab (startDate, endDate, granularity)
    timelineView, \* pm3: 'days' | 'weeks' | 'months'
    projects,   \* pira, pm3: the stored projects, in list order
    editingProject, \* pira, pm3: the project open in the editor, or Null
    showAddProject, \* pm3: whether the project form is open
    views,      \* pm1, pm2: the ViewState of every tab opened so far
    activeTab,  \* pm1, pm2: the tab shown
    pmProjects, \* pm1, pm2: the project list
    events,     \* pm1, pm2: how many events of the tab model were handled
    drag,       \* the DragController's session
    interval,   \* the interval under the pointer, as last emitted to the caller
    op,         \* the function or handler that ran last
    arg,        \* its arguments
    ret         \* what it returned / rendered

vars == <<app, tz, now, winStart, winEnd, view, timelineView, projects, editingProject,
          showAddProject, views, activeTab, pmProjects, events,
          drag, interval, op, arg, ret>>
storeVars == <<projects, editingProject, showAddProject>>
dragVars == <<drag, interval>>
tabVars == <<views, activeTab, pmProjects, events>>
windowVars == <<app, tz, now, winStart, winEnd, view, timelineView>>

----------------------------------------------------------------------------
(* Numbers *)

MS_PER_DAY == 86400000
Unit == MS_PER_DAY \div 24
DAY == MS_PER_DAY \div Unit
NaN == -999999999
Null == -999999998

IsNum(x) == x # NaN /\ x # Null

Add(a, b) == IF a = NaN \/ b = NaN THEN NaN ELSE a + b
Sub(a, b) == IF a = NaN \/ b = NaN THEN NaN ELSE a - b
Mul(a, b) == IF a = NaN \/ b = NaN THEN NaN ELSE a * b
Le(a, b) == a # NaN /\ b # NaN /\ a <= b
Lt(a, b) == a # NaN /\ b # NaN /\ a < b
Max(a, b) == IF a >= b THEN a ELSE b
Min(a, b) == IF a <= b THEN a ELSE b

----------------------------------------------------------------------------
(* The ECMAScript calendar: Day(t), MakeDay, YearFromTime, MonthFromTime,  *)
(* DateFromTime, WeekDay, as used through Date.UTC, new Date(y, m, d) and  *)
(* the getUTC* / get* accessors.                                           *)

\* Days since 1970-01-01 of the civil date y-m-d (m in 1..12).
DaysFromCivil(y, m, d) ==
    LET FromYoe(era, yoe, doy) ==
            era * 146097 + yoe * 365 + yoe \div 4 - yoe \div 100 + doy - 719468
        FromYear(yy, doy) == FromYoe(yy \div 400, yy % 400, doy)
    IN FromYear(IF m <= 2 THEN y - 1 ELSE y,
                (153 * (IF m > 2 THEN m - 3 ELSE m + 9) + 2) \div 5 + d - 1)

\* The civil date of day number z, as [y, m (1..12), d].
CivilFromDays(z) ==
    LET FromMp(era, yoe, doy, mp) ==
            [y |-> yoe + era * 400 + (IF mp >= 10 THEN 1 ELSE 0),
             m |-> IF mp < 10 THEN mp + 3 ELSE mp - 9,
             d |-> doy - (153 * mp + 2) \div 5 + 1]
        FromDoy(era, yoe, doy) == FromMp(era, yoe, doy, (5 * doy + 2) \div 153)
        FromYoe(era, doe, yoe) ==
            FromDoy(era, yoe, doe - (365 * yoe + yoe \div 4 - yoe \div 100))
        FromDoe(era, doe) ==
            FromYoe(era, doe,
                    (doe - doe \div 1460 + doe \div 36524 - doe \div 146096) \div 365)
    IN FromDoe((z + 719468) \div 146097, (z + 719468) % 146097)

DaysInMonth(y, m) ==
    IF m = 12 THEN 31 ELSE DaysFromCivil(y, m + 1, 1) - DaysFromCivil(y, m, 1)

\* MakeDay(year, month, date): month is zero-based and may lie outside 0..11,
\* date may lie outside the month; both roll over.
MakeDay(y, m0, d) ==
    DaysFromCivil(y + m0 \div 12, (m0 % 12) + 1, 1) + d - 1

\* Date.UTC(y, m0, d, h, 0, 0, 0): NaN when an argument is NaN; a year in
\* 0..99 means 1900 + year.
DateUTC(y, m0, d, h) ==
    IF y = NaN \/ m0 = NaN \/ d = NaN THEN NaN
    ELSE MakeDay(IF 0 <= y /\ y <= 99 THEN 1900 + y ELSE y, m0, d) * DAY + h

DayOf(t) == t \div DAY
getUTCFullYear(t) == IF t = NaN THEN NaN ELSE CivilFromDays(DayOf(t)).y
getUTCMonth(t) == IF t = NaN THEN NaN ELSE CivilFromDays(DayOf(t)).m - 1
getUTCDate(t) == IF t = NaN THEN NaN ELSE CivilFromDays(DayOf(t)).d
\* 1970-01-01 was a Thursday (4); 0 = Sunday.
getUTCDay(t) == IF t = NaN THEN NaN ELSE (DayOf(t) + 4) % 7

----------------------------------------------------------------------------
(* Strings.  A date string is modelled by its "-"-separated fields; a      *)
(* field is [n |-> the value Number(field) yields, w |-> its length in     *)
(* characters].  Number("") is 0, Number of a non-numeric field is NaN.    *)
(* The empty string is the sequence of no fields.                          *)

Digits(n) ==
    IF n < 10 THEN 1 ELSE IF n < 100 THEN 2 ELSE IF n < 1000 THEN 3
    ELSE IF n < 10000 THEN 4 ELSE 5
F(n, w) == [n |-> n, w |-> w]
EmptyStr == <<>>
\* The zero-padded YYYY-MM-DD text of a civil date.
DateStr(y, m, d) == <<F(y, 4), F(m, 2), F(d, 2)>>
\* String(n).padStart(2, "0")
PadStart2(n) == F(n, Max(2, Digits(n)))

IsValidDateStr(s) ==
    /\ Len(s) = 3
    /\ s[1].w = 4 /\ s[2].w = 2 /\ s[3].w = 2
    /\ s[1].n # NaN /\ s[2].n # NaN /\ s[3].n # NaN
    /\ s[2].n \in 1..12
    /\ s[3].n \in 1..DaysInMonth(s[1].n, s[2].n)

----------------------------------------------------------------------------
(* pira: the date helpers (src/src/App.tsx 51-118; src/src/utils/dateMath.ts *)
(* holds the same toEpochUTCNoon, weeklyTicks and addDays).                 *)

UTC_NOON_HOUR == 12

\* if (!s) return NaN; [y, m, d] = s.split("-").map(Number);
\* Date.UTC(y, (m ?? 1) - 1, d ?? 1, 12, 0, 0, 0)
toEpochUTCNoon(s) ==
    IF s = EmptyStr THEN NaN
    ELSE DateUTC(s[1].n,
                 Sub(IF Len(s) >= 2 THEN s[2].n ELSE 1, 1),
                 IF Len(s) >= 3 THEN s[3].n ELSE 1,
                 UTC_NOON_HOUR)

\* App.tsx: "" for a non-finite value, else `${y}-${m}-${dd}` with month and
\* day padded to two characters and the year not padded.
toInputYYYYMMDD(ms) ==
    IF ms = NaN THEN EmptyStr
    ELSE <<F(getUTCFullYear(ms), Digits(getUTCFullYear(ms))),
           PadStart2(getUTCMonth(ms) + 1),
           PadStart2(getUTCDate(ms))>>

\* dateMath.ts: the same without the guard; new Date(NaN) yields NaN fields.
toInputYYYYMMDD_dateMath(ms) ==
    IF ms = NaN THEN <<F(NaN, 3), F(NaN, 3), F(NaN, 3)>>
    ELSE <<F(getUTCFullYear(ms), Digits(getUTCFullYear(ms))),
           PadStart2(getUTCMonth(ms) + 1),
           PadStart2(getUTCDate(ms))>>

\* Mutant: the day count loses its sign.
addDays_unsigned(ms, days) == Add(ms, Mul(IF days < 0 THEN 0 - days ELSE days, DAY))

addDays(ms, days) == Add(ms, Mul(days, DAY))

todayUTCNoon ==
    DateUTC(getUTCFullYear(now), getUTCMonth(now), getUTCDate(now), UTC_NOON_HOUR)

\* Mutant: t += 6 * MS_PER_DAY, a week one day short.
RECURSIVE WeeklyLoop_sixDays(_, _, _)
WeeklyLoop_sixDays(t, winEndMs, ticks) ==
    IF Le(t, winEndMs)
    THEN WeeklyLoop_sixDays(Add(t, 6 * DAY), winEndMs, Append(ticks, t))
    ELSE ticks

\* Mutant: a do-while loop, which pushes the first tick before testing it.
RECURSIVE WeeklyLoop_pushFirst(_, _, _)
WeeklyLoop_pushFirst(t, winEndMs, ticks) ==
    IF t = NaN THEN ticks
    ELSE IF Le(Add(t, 7 * DAY), winEndMs)
    THEN WeeklyLoop_pushFirst(Add(t, 7 * DAY), winEndMs, Append(ticks, t))
    ELSE Append(ticks, t)

RECURSIVE WeeklyLoop(_, _, _)
WeeklyLoop(t, winEndMs, ticks) ==
    IF Le(t, winEndMs)
    THEN WeeklyLoop(Add(t, 7 * DAY), winEndMs, Append(ticks, t))
    ELSE ticks

\* offset = (7 - dow) % 7; t = winStart + offset * MS_PER_DAY;
\* while (t <= winEnd) { ticks.push(t); t += 7 * MS_PER_DAY }
\* Mutant: offset = 7 - dow, without the % 7 that keeps a Sunday in place.
weeklyTicks_noModulo(winStartMs, winEndMs) ==
    LET offset(dow) == IF dow = NaN THEN NaN ELSE 7 - dow
    IN WeeklyLoop(Add(winStartMs, Mul(offset(getUTCDay(winStartMs)), DAY)), winEndMs, <<>>)

weeklyTicks(winStartMs, winEndMs) ==
    LET offset(dow) == IF dow = NaN THEN NaN ELSE (7 - dow) % 7
    IN WeeklyLoop(Add(winStartMs, Mul(offset(getUTCDay(winStartMs)), DAY)), winEndMs, <<>>)

\* Mutant: while (t < winEnd), which loses a tick that falls on winEnd.
RECURSIVE MonthlyLoop_strict(_, _, _)
MonthlyLoop_strict(t, winEndMs, ticks) ==
    IF Lt(t, winEndMs)
    THEN MonthlyLoop_strict(DateUTC(getUTCFullYear(t), getUTCMonth(t) + 1, 1, UTC_NOON_HOUR),
                            winEndMs, Append(ticks, t))
    ELSE ticks

RECURSIVE MonthlyLoop(_, _, _)
MonthlyLoop(t, winEndMs, ticks) ==
    IF Le(t, winEndMs)
    THEN MonthlyLoop(DateUTC(getUTCFullYear(t), getUTCMonth(t) + 1, 1, UTC_NOON_HOUR),
                     winEndMs, Append(ticks, t))
    ELSE ticks

\* Mutant: the head tick is kept although it lies before winStart.
monthlyTicks_noShift(winStartMs, winEndMs) ==
    MonthlyLoop(DateUTC(getUTCFullYear(winStartMs), getUTCMonth(winStartMs), 1, UTC_NOON_HOUR),
                winEndMs, <<>>)

\* d = Date.UTC(year, month, 1, 12) of winStart; loop while t <= winEnd;
\* last, if (ticks[0] < winStart) ticks.shift()
monthlyTicks(winStartMs, winEndMs) ==
    LET Shift(ticks) ==
            IF Len(ticks) > 0 /\ Lt(ticks[1], winStartMs) THEN Tail(ticks) ELSE ticks
    IN Shift(MonthlyLoop(DateUTC(getUTCFullYear(winStartMs), getUTCMonth(winStartMs),
                                 1, UTC_NOON_HOUR),
                         winEndMs, <<>>))

\* Math.max and Math.min of two numbers: NaN if either is NaN
MathMax(a, b) == IF a = NaN \/ b = NaN THEN NaN ELSE Max(a, b)
MathMin(a, b) == IF a = NaN \/ b = NaN THEN NaN ELSE Min(a, b)

\* dateMath.ts: Math.min(Math.max(ms, min), max)
clamp_dateMath(ms, min, max) == MathMin(MathMax(ms, min), max)

\* Mutant: the lower bound is forgotten.
clamp_upperOnly(ms, start, end) == MathMin(end, ms)

\* App.tsx: Math.max(start, Math.min(end, ms))
clamp(ms, start, end) == MathMax(start, MathMin(end, ms))

PX_PER_DAY == 18

\* Pixel geometry.  A pixel value is kept exact as a numerator over DAY: the
\* operators below return (value in px) * DAY.
\* App.tsx: days = (dateMs - winStart) / MS_PER_DAY; return days * pxPerDay
xFromDate(dateMs, winStartMs, pxPerDay) == Mul(Sub(dateMs, winStartMs), pxPerDay)

\* dateMath.ts: the same with the fixed PX_PER_DAY
xFromDate_dateMath(dateMs, startMs) == Mul(Sub(dateMs, startMs), PX_PER_DAY)

\* Mutant: the width of the exclusive range, without the + 1 day.
widthFromDates_exclusive(startMs, endMs, pxPerDay) ==
    LET Floor0(w) == IF w = NaN THEN NaN ELSE Max(0, w)
    IN Floor0(Mul(Sub(endMs, startMs), pxPerDay))

\* App.tsx: days = (endMs - startMs) / MS_PER_DAY + 1;
\* return Math.max(0, days * pxPerDay)      (Math.max(0, NaN) is NaN)
widthFromDates(startMs, endMs, pxPerDay) ==
    LET Floor0(w) == IF w = NaN THEN NaN ELSE Max(0, w)
    IN Floor0(Mul(Add(Sub(endMs, startMs), DAY), pxPerDay))

\* Mutant: the width is not floored at 0.
wFromDates_noFloor(startMs, endMs) ==
    Mul(Add(Sub(endMs, startMs), DAY), PX_PER_DAY)

\* dateMath.ts: Math.max(0, ((endMs - startMs) / MS_PER_DAY + 1) * PX_PER_DAY)
wFromDates(startMs, endMs) ==
    LET Floor0(w) == IF w = NaN THEN NaN ELSE Max(0, w)
    IN Floor0(Mul(Add(Sub(endMs, startMs), DAY), PX_PER_DAY))

----------------------------------------------------------------------------
(* pm1, pm2: Date objects.  A Date is modelled by its time value (UTC);   *)
(* the local accessors read it tz hours later.                             *)

getFullYear(t) == CivilFromDays(DayOf(t + tz)).y
getMonth(t) == CivilFromDays(DayOf(t + tz)).m - 1
getDate(t) == CivilFromDays(DayOf(t + tz)).d
getDay(t) == (DayOf(t + tz) + 4) % 7
\* the local time of day, in units
TimeInDay(t) == (t + tz) % DAY

\* new Date(y, m0, d): local midnight of the (rolled-over) civil date.
NewDate(y, m0, d) ==
    MakeDay(IF 0 <= y /\ y <= 99 THEN 1900 + y ELSE y, m0, d) * DAY - tz

\* new Date(text) for the texts the model uses: a well-formed YYYY-MM-DD text
\* is read as midnight UTC of that date; an empty or non-numeric text and a
\* month or day outside 1..12 and 1..31 are an Invalid Date.  (A day 29..31
\* past the end of its month is read differently by different engines; no
\* text handed to this operator has one.)
DateParse(s) ==
    IF IsValidDateStr(s) THEN MakeDay(s[1].n, s[2].n - 1, s[3].n) * DAY ELSE NaN

\* d.toISOString().slice(0, 10): the UTC calendar date of d.
fmt(t) == DateStr(getUTCFullYear(t), getUTCMonth(t) + 1, getUTCDate(t))

\* pm1: x = new Date(d); x.setDate(x.getDate() + days) keeps the time of day.
addDays_pm1(t, days) == NewDate(getFullYear(t), getMonth(t), getDate(t) + days) + TimeInDay(t)
\* pm2: new Date(d.getFullYear(), d.getMonth(), d.getDate() + days) is a midnight.
addDays_pm2(t, days) == NewDate(getFullYear(t), getMonth(t), getDate(t) + days)

\* t = s.trim(); if (!t) return null; d = new Date(t); if (isNaN(d)) return null;
\* return new Date(d.getFullYear(), d.getMonth(), d.getDate())
parseDate(s) ==
    IF s = EmptyStr THEN Null
    ELSE LET LocalMidnight(d) ==
                 IF d = NaN THEN Null ELSE NewDate(getFullYear(d), getMonth(d), getDate(d))
         IN LocalMidnight(DateParse(s))

RECURSIVE Insert(_, _)
Insert(x, sorted) ==
    IF sorted = <<>> THEN <<x>>
    ELSE IF x < Head(sorted) THEN <<x>> \o sorted
    ELSE <<Head(sorted)>> \o Insert(x, Tail(sorted))

\* Array.prototype.sort((a, b) => a - b): stable, ascending.
RECURSIVE SortAsc(_)
SortAsc(xs) == IF xs = <<>> THEN <<>> ELSE Insert(xs[Len(xs)], SortAsc(SubSeq(xs, 1, Len(xs) - 1)))

\* Mutant: the first malformed entry ends the parse of the field.
RECURSIVE ParsedEntries_abort(_)
ParsedEntries_abort(entries) ==
    IF entries = <<>> THEN <<>>
    ELSE LET Kept(d) == IF d = Null THEN <<>>
                        ELSE <<d>> \o ParsedEntries_abort(Tail(entries))
         IN Kept(parseDate(Head(entries)))

RECURSIVE ParsedEntries(_)
ParsedEntries(entries) ==
    IF entries = <<>> THEN <<>>
    ELSE LET Kept(d) == IF d = Null THEN <<>> ELSE <<d>>
         IN Kept(parseDate(Head(entries))) \o ParsedEntries(Tail(entries))

\* value.split(',').map(parseDate).filter(d => !!d).sort(by time); a comma
\* separated field is modelled by the sequence of its entries.
parseCommaDates(value) == SortAsc(ParsedEntries(value))

\* Mutant: the dates of the four fields are not sorted together.
getProjectAllDates_unsorted(p) ==
    parseCommaDates(p.startDates) \o parseCommaDates(p.dueDates)
    \o parseCommaDates(p.stabilizationDates) \o parseCommaDates(p.completeDates)

getProjectAllDates(p) ==
    SortAsc(parseCommaDates(p.startDates) \o parseCommaDates(p.dueDates)
            \o parseCommaDates(p.stabilizationDates) \o parseCommaDates(p.completeDates))

getProjectSpan(p) ==
    LET Span(all) ==
            IF Len(all) > 0 THEN [start |-> all[1], end |-> all[Len(all)]]
            ELSE [start |-> Null, end |-> Null]
    IN Span(getProjectAllDates(p))

Granularities == {"weeks", "months", "quarters", "years"}

\* Mutant: the quarter step is cur.getMonth() + 2.
StepMonths_shortQuarter(cur, g) ==
    IF g = "months" THEN NewDate(getFullYear(cur), getMonth(cur) + 1, 1)
    ELSE IF g = "quarters" THEN NewDate(getFullYear(cur), getMonth(cur) + 2, 1)
    ELSE NewDate(getFullYear(cur) + 1, 0, 1)

\* The step at the foot of the generator's loop, the same in pm1 and pm2 but
\* for addDays.
StepMonths(cur, g) ==
    IF g = "months" THEN NewDate(getFullYear(cur), getMonth(cur) + 1, 1)
    ELSE IF g = "quarters" THEN NewDate(getFullYear(cur), getMonth(cur) + 3, 1)
    ELSE NewDate(getFullYear(cur) + 1, 0, 1)

RECURSIVE TickLoop_pm1(_, _, _, _)
TickLoop_pm1(cur, end, g, ticks) ==
    IF cur <= end
    THEN TickLoop_pm1(IF g = "weeks" THEN addDays_pm1(cur, 7) ELSE StepMonths(cur, g),
                      end, g, Append(ticks, cur))
    ELSE ticks

\* pm1 (lines 55-72): weeks start at `start` itself.
tickGenerator_pm1(start, end, g) ==
    LET cur == IF g = "months" THEN NewDate(getFullYear(start), getMonth(start), 1)
               ELSE IF g = "quarters"
                    THEN NewDate(getFullYear(start), (getMonth(start) \div 3) * 3, 1)
               ELSE IF g = "years" THEN NewDate(getFullYear(start), 0, 1)
               ELSE start
    IN TickLoop_pm1(cur, end, g, <<>>)

startOfWeekSunday(d) == addDays_pm2(d, 0 - getDay(d))

RECURSIVE TickLoop_pm2(_, _, _, _)
TickLoop_pm2(cur, end, g, ticks) ==
    IF cur <= end
    THEN TickLoop_pm2(IF g = "weeks" THEN addDays_pm2(cur, 7) ELSE StepMonths(cur, g),
                      end, g, Append(ticks, cur))
    ELSE ticks

\* pm2 (lines 704-718): weeks start at the Sunday on or before `start`.
tickGenerator_pm2(start, end, g) ==
    LET cur == IF g = "weeks" THEN startOfWeekSunday(start)
               ELSE IF g = "months" THEN NewDate(getFullYear(start), getMonth(start), 1)
               ELSE IF g = "quarters"
                    THEN NewDate(getFullYear(start), (getMonth(start) \div 3) * 3, 1)
               ELSE NewDate(getFullYear(start), 0, 1)
    IN TickLoop_pm2(cur, end, g, <<>>)

----------------------------------------------------------------------------
(* Bar geometry normalised by the window span.  A percentage or pixel       *)
(* value is kept exact as a numerator over the denominator `den` returned   *)
(* with it.                                                                 *)

Clamp(n, lo, hi) == Min(hi, Max(lo, n))

\* pm1 TimelineView (lines 511-530, 557-563):
\*   spanMs = Math.max(1, end - start); pos(d) = clamp((d - start) / spanMs * 100)
\*   bar: left = pos(span.start), width = pos(span.end) - pos(span.start)
\* With end <= start spanMs is one millisecond, and every Date later than
\* start lies at 100.
TimelineView_pm1(v, p) ==
    LET OrNow(parsed) == IF parsed = Null THEN now ELSE parsed
        Row(start, end, den, span, hasRow) ==
            LET pos(d) == IF end > start THEN Clamp(100 * (d - start), 0, 100 * den)
                          ELSE IF d > start THEN 100 ELSE 0
            IN [start |-> start, end |-> end,
                ticks |-> tickGenerator_pm1(start, end, v.granularity),
                span |-> span, hasRow |-> hasRow, den |-> den,
                left |-> IF hasRow THEN pos(span.start) ELSE 0,
                width |-> IF hasRow THEN pos(span.end) - pos(span.start) ELSE 0,
                error |-> "none"]
        WithSpan(start, end, span) ==
            Row(start, end, IF end > start THEN end - start ELSE 1, span,
                span.start # Null /\ span.end # Null)
        WithStart(start, parsedEnd) ==
            WithSpan(start, IF parsedEnd = Null THEN addDays_pm1(start, 90) ELSE parsedEnd,
                     getProjectSpan(p))
    IN WithStart(OrNow(parseDate(v.startDate)), parseDate(v.endDate))

PX_PER_DAY_pm2 == 12
MinContentWidth == 600

\* pm2 TimelineView (lines 1184-1206, 1256-1263):
\*   daysTotal = Math.max(1, Math.ceil((end - start) / dayMs))
\*   contentWidth = Math.max(600, daysTotal * PX_PER_DAY)
\*   xPx(d) = clamp((d - start) / (daysTotal * dayMs), 0, 1) * contentWidth
\*   bar: left = min(xPx(s), xPx(e)), width = |xPx(e) - xPx(s)|
TimelineView_pm2(v, p) ==
    LET OrNow(parsed) == IF parsed = Null THEN now ELSE parsed
        Bar(xs, xe) == [left |-> Min(xs, xe), width |-> IF xe >= xs THEN xe - xs ELSE xs - xe]
        Row(start, end, daysTotal, contentWidth, span, hasRow) ==
            LET xPx(d) == Clamp(d - start, 0, daysTotal * DAY) * contentWidth
            IN [start |-> start, end |-> end,
                ticks |-> tickGenerator_pm2(start, end, v.granularity),
                span |-> span, hasRow |-> hasRow, den |-> daysTotal * DAY,
                daysTotal |-> daysTotal, contentWidth |-> contentWidth,
                error |-> "none"]
               @@ Bar(IF hasRow THEN xPx(span.start) ELSE 0,
                      IF hasRow THEN xPx(span.end) ELSE 0)
        WithDays(start, end, daysTotal, span) ==
            Row(start, end, daysTotal, Max(MinContentWidth, daysTotal * PX_PER_DAY_pm2),
                span, span.start # Null /\ span.end # Null)
        WithEnd(start, end) ==
            WithDays(start, end, Max(1, 0 - ((start - end) \div DAY)), getProjectSpan(p))
        WithStart(start, parsedEnd) ==
            WithEnd(start, IF parsedEnd = Null THEN addDays_pm2(start, 120) ELSE parsedEnd)
    IN WithStart(OrNow(parseDate(v.startDate)), parseDate(v.endDate))

----------------------------------------------------------------------------
(* pm3: the timeline window is fixed at construction (lines 1364-1373);     *)
(* columns and bar position are lines 1507-1565.                            *)

\* date = new Date(); date.setMonth(date.getMonth() + k)
SetMonthFromNow(k) == NewDate(getFullYear(now), getMonth(now) + k, getDate(now)) + TimeInDay(now)
timelineStartDate == SetMonthFromNow(0 - 1)
timelineEndDate == SetMonthFromNow(6)

DayColumnWidth == 30
WeekColumnWidth == 80
MonthColumnWidth == 120

MaxColumns == 250

\* The Date reached from `start` by k rounds of date.setDate(date.getDate() + stepDays).
DateAfterSteps(start, stepDays, k) ==
    NewDate(getFullYear(start), getMonth(start), getDate(start) + k * stepDays)
    + TimeInDay(start)

\* Mutant: the loop runs while date < end and leaves window.end out.
DayStepColumns_strict(first, end, stepDays, width) ==
    LET n == Cardinality({k \in 0..MaxColumns : DateAfterSteps(first, stepDays, k) < end})
    IN [i \in 1..n |-> [date |-> DateAfterSteps(first, stepDays, i - 1), width |-> width]]

\* for (date = first; date <= end; date.setDate(date.getDate() + stepDays)) push:
\* the dates grow with k, so the loop pushes those of the rounds k with date <= end.
DayStepColumns(first, end, stepDays, width) ==
    LET n == Cardinality({k \in 0..MaxColumns : DateAfterSteps(first, stepDays, k) <= end})
    IN [i \in 1..n |-> [date |-> DateAfterSteps(first, stepDays, i - 1), width |-> width]]

\* for (date = first of month; date <= end; date.setMonth(date.getMonth() + 1)) push
RECURSIVE MonthColumns(_, _, _, _)
MonthColumns(date, end, width, columns) ==
    IF date <= end
    THEN MonthColumns(NewDate(getFullYear(date), getMonth(date) + 1, getDate(date))
                      + TimeInDay(date),
                      end, width, Append(columns, [date |-> date, width |-> width]))
    ELSE columns

generateTimelineColumns(tv) ==
    LET start == timelineStartDate
        end == timelineEndDate
    IN IF tv = "days" THEN DayStepColumns(start, end, 1, DayColumnWidth)
       ELSE IF tv = "weeks"
            THEN DayStepColumns(DateAfterSteps(start, 0 - getDay(start), 1),
                                end, 7, WeekColumnWidth)
       ELSE MonthColumns(NewDate(getFullYear(start), getMonth(start), 1),
                         end, MonthColumnWidth, <<>>)

MinBarPercent == 2

\* left and width in percent, as numerators over den.
calculateProjectPosition(project, columns) ==
    LET Percent(totalTimespan, projectStart, projectDuration, den) ==
            LET leftPercent == IF totalTimespan > 0 THEN 100 * projectStart ELSE 0
                widthPercent == IF totalTimespan > 0 THEN 100 * projectDuration
                                ELSE MinBarPercent
            IN [den |-> den,
                left |-> Max(0, leftPercent),
                width |-> Max(MinBarPercent * den,
                              Min(widthPercent, 100 * den - leftPercent)),
                error |-> "none"]
        Position(startDate, endDate, timelineStart, timelineEnd) ==
            Percent(timelineEnd - timelineStart,
                    Max(0, startDate - timelineStart),
                    endDate - startDate,
                    IF timelineEnd - timelineStart > 0 THEN timelineEnd - timelineStart ELSE 1)
            @@ [timelineStart |-> timelineStart, timelineEnd |-> timelineEnd,
                startDate |-> startDate, endDate |-> endDate]
        OnColumns(startDate, endDate) ==
            Position(startDate, endDate,
                     IF Len(columns) > 0 THEN columns[1].date ELSE startDate,
                     IF Len(columns) > 0 THEN columns[Len(columns)].date ELSE endDate)
    IN OnColumns(DateParse(project.startDate), DateParse(project.dueDate))

----------------------------------------------------------------------------
(* Inputs *)

Apps == {"pira", "pm1", "pm2", "pm3"}
TimeZones == {0 - 5, 0, 2}
\* the host clock: 2025-01-15T15:00Z (a Wednesday) and 2025-03-05T03:00Z (a
\* Wednesday in UTC, still Tuesday five hours to the west)
Clock == {DateUTC(2025, 0, 15, 15), DateUTC(2025, 2, 5, 3)}

MaxDayOffset == 1
MaxAddDays == 2

DateStrOfDay(z) == LET c == CivilFromDays(z) IN DateStr(c.y, c.m, c.d)

\* 2024-12-29 is a Sunday, in the middle of a month; 2025-01-01 a Wednesday and
\* the first of a month.
WindowDays ==
    {DaysFromCivil(2024, 12, 29) + k : k \in 0..MaxDayOffset}
    \cup {DaysFromCivil(2025, 1, 1), DaysFromCivil(2025, 3, 31)}

\* What an <input type="date"> can hand to onChange: a date, or "" when cleared.
DateInputValues == {EmptyStr} \cup {DateStrOfDay(z) : z \in WindowDays}

\* Texts for the pure date helpers: well-formed dates (one in a leap February,
\* two with a year below 1000) and malformed ones.
ValidTexts ==
    {DateStr(2025, 1, 1), DateStr(2025, 3, 31), DateStr(2024, 2, 29), DateStr(2024, 12, 31),
     DateStr(1969, 12, 31), DateStr(999, 1, 1), DateStr(50, 6, 15)}
InvalidTexts ==
    {EmptyStr, <<F(NaN, 3)>>, <<F(2025, 4), F(NaN, 2), F(1, 2)>>,
     DateStr(2025, 13, 1), DateStr(2025, 0, 10), DateStr(2025, 2, 30), DateStr(2025, 4, 31),
     DateStr(2025, 1, 0), DateStr(2023, 2, 29)}
Texts == ValidTexts \cup InvalidTexts

ProjectDates == {DateStr(2025, 1, 1), DateStr(2025, 1, 15)}
\* pira: the start and due dates of a bar (one of them may be missing), and the
\* pixels per day (16 is the seeded setting)
BarTexts == ProjectDates \cup {DateStr(2024, 12, 31), EmptyStr}
PxValues == {0, 1, 16}
\* pm1, pm2: projects with one start and one due date
RowProjects ==
    {[startDates |-> <<a>>, dueDates |-> <<b>>, stabilizationDates |-> <<>>,
      completeDates |-> <<>>] : a \in ProjectDates, b \in ProjectDates}
\* pm3: projects as saveProjectFromForm stores them, one of them months past
\* the end of the timeline
Projects_pm3 ==
    {[startDate |-> a, dueDate |-> b] : a \in ProjectDates, b \in ProjectDates}
    \cup {[startDate |-> DateStr(2025, 12, 1), dueDate |-> DateStr(2025, 12, 15)]}

----------------------------------------------------------------------------
(* State machine *)

\* useState(null): no project is open in the editor
NoProject == [id |-> Null]

\* the DragController at rest: no session, nothing captured
IdleSession ==
    [state |-> "Idle", mode |-> "none", originalStart |-> Null, originalEnd |-> Null,
     session |-> 0]

\* pm1 lines 85-94, pm2 lines 732-741
defaultView ==
    IF app = "pm2"
    THEN [startDate |-> fmt(addDays_pm2(now, 0 - 30)), endDate |-> fmt(addDays_pm2(now, 120)),
          autoRange |-> TRUE, granularity |-> "weeks"]
    ELSE [startDate |-> fmt(addDays_pm1(now, 0 - 30)), endDate |-> fmt(addDays_pm1(now, 90)),
          autoRange |-> TRUE, granularity |-> "months"]

\* the tabs of pm1 line 145: one team tab stands for the team tabs, and the
\* Teams tab, which takes the same branch of the effect as Unified, is left out
Tabs == {"Unified", "Completed", "T1", "Projects"}

\* the members of a team, as seeded (pm1 lines 116-119)
TeamMembers(teamId) == IF teamId = "T1" THEN {"m1"} ELSE {}

\* views[key] is undefined
NoView == [absent |-> TRUE]

\* the fields of defaultView() that PanelControls and the effect read
defaultViewState ==
    [startDate |-> defaultView.startDate, endDate |-> defaultView.endDate,
     autoRange |-> defaultView.autoRange, granularity |-> defaultView.granularity,
     includeCompleted |-> TRUE]

\* pm1 lines 123-128, pm2 lines 770-775: the project of a first run
SeedProject ==
    IF app = "pm2"
    THEN [startDates |-> <<DateStr(2025, 5, 1)>>,
          dueDates |-> <<DateStr(2025, 8, 1), DateStr(2025, 8, 15)>>,
          stabilizationDates |-> <<>>, completeDates |-> <<>>,
          teamMemberIds |-> {}, completed |-> FALSE]
    ELSE [startDates |-> <<DateStr(2025, 1, 10)>>, dueDates |-> <<DateStr(2025, 2, 15)>>,
          stabilizationDates |-> <<DateStr(2025, 3, 1)>>, completeDates |-> <<>>,
          teamMemberIds |-> {}, completed |-> FALSE]

Init ==
    /\ app \in Apps
    /\ tz \in TimeZones
    /\ now \in Clock
    /\ winStart = todayUTCNoon - 14 * 7 * DAY
    /\ winEnd = todayUTCNoon + 20 * 7 * DAY
    /\ view = defaultView
    /\ timelineView = "weeks"
    /\ projects = <<>>
    /\ editingProject = NoProject
    /\ showAddProject = FALSE
    /\ views = [t \in Tabs |-> IF t = "Unified" THEN defaultViewState ELSE NoView]
    /\ activeTab = "Unified"
    /\ pmProjects = <<SeedProject>>
    /\ events = 0
    /\ drag = IdleSession
    /\ interval = [start |-> DateUTC(2025, 0, 10, UTC_NOON_HOUR),
                   end |-> DateUTC(2025, 0, 20, UTC_NOON_HOUR)]
    /\ op = "init"
    /\ arg = <<>>
    /\ ret = <<>>

\* part_000 line 403: onChange={(e) => setWinStart(toEpochUTCNoon(e.target.value))}
SetWinStart(s) ==
    /\ app = "pira"
    /\ winStart' = toEpochUTCNoon(s)
    /\ op' = "setWinStart" /\ arg' = <<>> /\ ret' = <<>>
    /\ UNCHANGED <<tabVars, storeVars, dragVars, app, tz, now, winEnd, view, timelineView>>

\* part_000 line 410
SetWinEnd(s) ==
    /\ app = "pira"
    /\ winEnd' = toEpochUTCNoon(s)
    /\ op' = "setWinEnd" /\ arg' = <<>> /\ ret' = <<>>
    /\ UNCHANGED <<tabVars, storeVars, dragVars, app, tz, now, winStart, view, timelineView>>

\* part_000 lines 255-256: the Timeline computes its ticks from the window
RenderTimeline ==
    /\ app = "pira"
    /\ op' = "Timeline"
    /\ arg' = [winStart |-> winStart, winEnd |-> winEnd]
    /\ ret' = [weekTicks |-> weeklyTicks(winStart, winEnd),
               monthTicks |-> monthlyTicks(winStart, winEnd),
               error |-> "none"]
    /\ UNCHANGED <<tabVars, storeVars, dragVars, app, tz, now, winStart, winEnd, view, timelineView>>

\* the pure helpers applied to a text: normalize, then format
CallToEpochUTCNoon(s) ==
    /\ app = "pira"
    /\ op' = "toEpochUTCNoon"
    /\ arg' = s
    /\ LET Formatted(ms) ==
               [ms |-> ms, text |-> toInputYYYYMMDD(ms),
                text_dateMath |-> toInputYYYYMMDD_dateMath(ms)]
       IN ret' = Formatted(toEpochUTCNoon(s))
    /\ UNCHANGED <<tabVars, storeVars, dragVars, app, tz, now, winStart, winEnd, view, timelineView>>

\* part_000 lines 564-573: the bar of a project, left and width in px * DAY;
\* wFromDates is the dateMath.ts form of the width
CallWidthFromDates(s, e, px) ==
    /\ app = "pira"
    /\ op' = "widthFromDates"
    /\ LET Bar(startMs, dueMs) ==
               /\ arg' = [startMs |-> startMs, endMs |-> dueMs, pxPerDay |-> px]
               /\ ret' = [left |-> xFromDate(startMs, winStart, px),
                          width |-> widthFromDates(startMs, dueMs, px),
                          width_dateMath |-> wFromDates(startMs, dueMs)]
       IN Bar(toEpochUTCNoon(s), toEpochUTCNoon(e))
    /\ UNCHANGED <<tabVars, storeVars, dragVars, app, tz, now, winStart, winEnd, view, timelineView>>

CallAddDays(s, n) ==
    /\ app = "pira"
    /\ op' = "addDays"
    /\ arg' = [ms |-> toEpochUTCNoon(s), days |-> n]
    /\ ret' = addDays(toEpochUTCNoon(s), n)
    /\ UNCHANGED <<tabVars, storeVars, dragVars, app, tz, now, winStart, winEnd, view, timelineView>>

\* pm1 line 255 / pm2 line 901: onChange({ startDate: value, autoRange: false })
SetStartDate(s) ==
    /\ app \in {"pm1", "pm2"}
    /\ view' = [view EXCEPT !.startDate = s, !.autoRange = FALSE]
    /\ op' = "setStartDate" /\ arg' = <<>> /\ ret' = <<>>
    /\ UNCHANGED <<tabVars, storeVars, dragVars, app, tz, now, winStart, winEnd, timelineView>>

\* pm1 line 259 / pm2 line 905
SetEndDate(s) ==
    /\ app \in {"pm1", "pm2"}
    /\ view' = [view EXCEPT !.endDate = s, !.autoRange = FALSE]
    /\ op' = "setEndDate" /\ arg' = <<>> /\ ret' = <<>>
    /\ UNCHANGED <<tabVars, storeVars, dragVars, app, tz, now, winStart, winEnd, timelineView>>

\* pm1 line 233 / pm2 line 879
SetGranularity(g) ==
    /\ app \in {"pm1", "pm2"}
    /\ view' = [view EXCEPT !.granularity = g]
    /\ op' = "setGranularity" /\ arg' = <<>> /\ ret' = <<>>
    /\ UNCHANGED <<tabVars, storeVars, dragVars, app, tz, now, winStart, winEnd, timelineView>>

\* TimelineView renders the ticks and the row of project p
RenderTimelineView(p) ==
    /\ app \in {"pm1", "pm2"}
    /\ op' = "TimelineView"
    /\ arg' = [view |-> view, project |-> p]
    /\ ret' = IF app = "pm1" THEN TimelineView_pm1(view, p) ELSE TimelineView_pm2(view, p)
    /\ UNCHANGED <<tabVars, storeVars, dragVars, app, tz, now, winStart, winEnd, view, timelineView>>

\* pm3 line 2325: onChange={(e) => setTimelineView(e.target.value)}
SetTimelineView(tv) ==
    /\ app = "pm3"
    /\ timelineView' = tv
    /\ op' = "setTimelineView" /\ arg' = <<>> /\ ret' = <<>>
    /\ UNCHANGED <<tabVars, storeVars, dragVars, app, tz, now, winStart, winEnd, view>>

\* pm3: the columns, and the bar of project p on them
RenderColumns(p) ==
    /\ app = "pm3"
    /\ op' = "generateTimelineColumns"
    /\ arg' = [start |-> timelineStartDate, end |-> timelineEndDate,
               timelineView |-> timelineView, project |-> p]
    /\ LET Rendered(columns) ==
               [columns |-> columns, bar |-> calculateProjectPosition(p, columns),
                error |-> "none"]
       IN ret' = Rendered(generateTimelineColumns(timelineView))
    /\ UNCHANGED <<tabVars, storeVars, dragVars, app, tz, now, winStart, winEnd, view, timelineView>>

Next ==
    \/ \E s \in DateInputValues : SetWinStart(s)
    \/ \E s \in DateInputValues : SetWinEnd(s)
    \/ RenderTimeline
    \/ \E s \in Texts : CallToEpochUTCNoon(s)
    \/ \E s \in ValidTexts, n \in (0 - MaxAddDays)..MaxAddDays : CallAddDays(s, n)
    \/ \E s \in BarTexts, e \in BarTexts, px \in PxValues : CallWidthFromDates(s, e, px)
    \/ \E s \in DateInputValues : SetStartDate(s)
    \/ \E s \in DateInputValues : SetEndDate(s)
    \/ \E g \in Granularities : SetGranularity(g)
    \/ \E p \in RowProjects : RenderTimelineView(p)
    \/ \E tv \in {"days", "weeks", "months"} : SetTimelineView(tv)
    \/ \E p \in Projects_pm3 : RenderColumns(p)

Spec == Init /\ [][Next]_vars

----------------------------------------------------------------------------
(* The parsers of pm1 and pm2, applied to the text of a date field. *)

MaxEntries == 3

\* the entries of a comma separated field: empty, not a date, month 13, and
\* two dates, the later one first
FieldEntries ==
    {EmptyStr, <<F(NaN, 3)>>, DateStr(2025, 13, 1), DateStr(2025, 1, 15), DateStr(2025, 1, 1)}
\* value.split(',') has at least one entry
FieldValues == UNION {[1..n -> FieldEntries] : n \in 1..MaxEntries}

CallParseCommaDates(value) ==
    /\ app \in {"pm1", "pm2"}
    /\ op' = "parseCommaDates"
    /\ arg' = value
    /\ ret' = [dates |-> parseCommaDates(value), error |-> "none"]
    /\ UNCHANGED <<tabVars, storeVars, dragVars, app, tz, now, winStart, winEnd, view, timelineView>>

NextParse == \E value \in FieldValues : CallParseCommaDates(value)

SpecParse == Init /\ [][NextParse]_vars

----------------------------------------------------------------------------
(* pm1 and pm2: the span of a project and its row in the timeline. *)

\* a date field: without a valid date, two dates with the later one first, one date
SpanFields ==
    {<<EmptyStr, <<F(NaN, 3)>>>>, <<DateStr(2025, 1, 15), DateStr(2025, 1, 1)>>,
     <<DateStr(2025, 3, 31)>>}

SpanProjects ==
    [startDates : SpanFields, dueDates : SpanFields, stabilizationDates : SpanFields,
     completeDates : SpanFields]

\* pm1 line 530, pm2 line 1206: .filter(r => r.span.start && r.span.end)
RowKept(r) == r.span.start # Null /\ r.span.end # Null

\* pm1 lines 519-530: rows = list.map(p => ({ ..., span: getProjectSpan(p) })).filter(...)
CallGetProjectSpan(p) ==
    /\ app \in {"pm1", "pm2"}
    /\ op' = "getProjectSpan"
    /\ arg' = p
    /\ ret' = [span |-> getProjectSpan(p), hasRow |-> RowKept([span |-> getProjectSpan(p)])]
    /\ UNCHANGED <<tabVars, storeVars, dragVars, windowVars>>

NextSpan == \E p \in SpanProjects : CallGetProjectSpan(p)

SpecSpan == Init /\ [][NextSpan]_vars

----------------------------------------------------------------------------
(* The project store: pm3's project form (lines 1613-1655, 1691-1695,      *)
(* 1861, 2181-2184) and pira's upsertProject (part_000 lines 702-712).     *)
(* Neither raises a warning; ret.warning records what the caller is told.  *)

MaxProjects == 2

FormNames == {"", "A"}
FormDates == {EmptyStr, DateStr(2025, 1, 1), DateStr(2025, 1, 15)}
\* pira: the editor hands upsertProject a Project with UTC-noon dates
UpsertedProjects ==
    {[id |-> i, startMs |-> toEpochUTCNoon(a), dueMs |-> toEpochUTCNoon(b)] :
        i \in 1..MaxProjects, a \in ProjectDates, b \in ProjectDates}

\* Date.now() as a project id: later than every id handed out before
DateNow ==
    LET Later(ids) == IF ids = {} THEN 1 ELSE 1 + CHOOSE m \in ids : \A n \in ids : n <= m
    IN Later({projects[i].id : i \in 1..Len(projects)})

\* projects.map(x => x.id === p.id ? p : x)
\* Mutant: every project is replaced by the one handed in.
ReplaceById_all(list, p) == [i \in 1..Len(list) |-> p]

\* Mutant: a project whose id is present is added once more.
ReplaceById_append(list, p) == Append(list, p)

ReplaceById(list, p) == [i \in 1..Len(list) |-> IF list[i].id = p.id THEN p ELSE list[i]]

\* pm3 lines 1861, 2210: the Add Project buttons
OpenAddProject ==
    /\ app = "pm3"
    /\ ~showAddProject
    /\ showAddProject' = TRUE
    /\ op' = "openAddProject" /\ arg' = <<>> /\ ret' = <<>>
    /\ UNCHANGED <<tabVars, projects, editingProject, dragVars, windowVars>>

\* pm3 lines 1691-1695
startEditProject(i) ==
    /\ app = "pm3"
    /\ ~showAddProject
    /\ i \in 1..Len(projects)
    /\ editingProject' = projects[i]
    /\ showAddProject' = TRUE
    /\ op' = "startEditProject" /\ arg' = <<>> /\ ret' = <<>>
    /\ UNCHANGED <<tabVars, projects, dragVars, windowVars>>

\* pm3 lines 2181-2184: the form's Cancel button
CancelProjectForm ==
    /\ app = "pm3"
    /\ showAddProject
    /\ showAddProject' = FALSE
    /\ editingProject' = NoProject
    /\ op' = "cancelProjectForm" /\ arg' = <<>> /\ ret' = <<>>
    /\ UNCHANGED <<tabVars, projects, dragVars, windowVars>>

\* pm3 lines 1613-1655: the form's submit button
saveProjectFromForm(name, startDate, dueDate) ==
    /\ app = "pm3"
    /\ showAddProject
    /\ editingProject = NoProject => (Len(projects) < MaxProjects /\ DateNow <= MaxProjects + 1)
    /\ op' = "saveProjectFromForm"
    /\ arg' = [name |-> name, startDate |-> startDate, dueDate |-> dueDate]
    /\ LET Save(projectData) ==
               IF name = "" \/ startDate = EmptyStr \/ dueDate = EmptyStr
               THEN /\ ret' = [alert |-> "required", warning |-> "none"]
                    /\ UNCHANGED storeVars
               ELSE /\ projects' = IF editingProject # NoProject
                                   THEN ReplaceById(projects, projectData)
                                   ELSE Append(projects, projectData)
                    /\ showAddProject' = FALSE
                    /\ editingProject' = NoProject
                    /\ ret' = [alert |-> "none", warning |-> "none"]
       IN Save([id |-> IF editingProject # NoProject THEN editingProject.id ELSE DateNow,
                name |-> name, startDate |-> startDate, dueDate |-> dueDate])
    /\ UNCHANGED <<tabVars, dragVars, windowVars>>

\* pm3 lines 1684-1688, window.confirm answered with OK; the list with its
\* delete buttons stays on the page while the form is open
deleteProject(i) ==
    /\ app = "pm3"
    /\ i \in 1..Len(projects)
    /\ projects' = SubSeq(projects, 1, i - 1) \o SubSeq(projects, i + 1, Len(projects))
    /\ op' = "deleteProject"
    /\ arg' = [id |-> projects[i].id]
    /\ ret' = [alert |-> "none", warning |-> "none"]
    /\ UNCHANGED <<tabVars, editingProject, showAddProject, dragVars, windowVars>>

\* part_000 lines 702-712
upsertProject(p) ==
    /\ app = "pira"
    /\ (\E i \in 1..Len(projects) : projects[i].id = p.id) \/ Len(projects) < MaxProjects
    /\ projects' = IF \E i \in 1..Len(projects) : projects[i].id = p.id
                   THEN ReplaceById(projects, p)
                   ELSE Append(projects, p)
    /\ editingProject' = NoProject
    /\ op' = "upsertProject"
    /\ arg' = p
    /\ ret' = [warning |-> "none"]
    /\ UNCHANGED <<tabVars, showAddProject, dragVars, windowVars>>

NextStore ==
    \/ OpenAddProject
    \/ \E i \in 1..MaxProjects : startEditProject(i)
    \/ CancelProjectForm
    \/ \E name \in FormNames, a \in FormDates, b \in FormDates : saveProjectFromForm(name, a, b)
    \/ \E i \in 1..MaxProjects : deleteProject(i)
    \/ \E p \in UpsertedProjects : upsertProject(p)

SpecStore == Init /\ [][NextStore]_vars

----------------------------------------------------------------------------
(* The three clamp functions, applied to the same numbers. *)

MaxClamp == 3

ClampBounds == 0..MaxClamp
ClampValues == (0 - 2)..(MaxClamp + 2)

CallClamp(value, min, max) ==
    /\ op' = "clamp"
    /\ arg' = [value |-> value, min |-> min, max |-> max]
    /\ ret' = [dateMath |-> clamp_dateMath(value, min, max),
               App |-> clamp(value, min, max),
               ProjectManagementApp |-> Clamp(value, min, max)]
    /\ UNCHANGED <<tabVars, storeVars, dragVars, windowVars>>

NextClamp == \E value \in ClampValues, min \in ClampBounds, max \in ClampBounds :
                 CallClamp(value, min, max)

SpecClamp == Init /\ [][NextClamp]_vars

----------------------------------------------------------------------------
(* DragController (spec.md section 4.4; the repository sources at hand hold *)
(* no pointer handling, so the controller is modelled from its             *)
(* description).  One session at a time: Idle -> Dragging(mode) -> Idle.    *)

MaxDragDays == 2
MaxSessions == 2

DragModes == {"move", "resizeStart", "resizeEnd"}
\* pointer deltas in px: whole days at 16 px per day, fractions of a day, and
\* eleven days either way (past the far edge of a ten-day interval)
DragPxPerDay == 16
DragDeltas ==
    {k * DragPxPerDay : k \in (0 - MaxDragDays)..MaxDragDays}
    \cup {7, 8, 0 - 8, 0 - 9, 11 * DragPxPerDay, 0 - (11 * DragPxPerDay)}

\* step 2: round(deltaPx / pxPerDay), halves rounded up as Math.round does
DayDelta(deltaPx, pxPerDay) == (2 * deltaPx + pxPerDay) \div (2 * pxPerDay)

\* Mutant: the day-delta is applied to the last frame's value.
DraggedInterval_lastFrame(session, last, k) ==
    IF session.mode = "move"
    THEN [start |-> last.start + k * DAY, end |-> last.end + k * DAY]
    ELSE IF session.mode = "resizeStart"
    THEN [start |-> Min(last.start + k * DAY, last.end), end |-> last.end]
    ELSE [start |-> last.start, end |-> Max(last.end + k * DAY, last.start)]

\* Mutant: a resized edge is not clamped to its counterpart.
DraggedInterval_noClamp(session, last, k) ==
    IF session.mode = "move"
    THEN [start |-> session.originalStart + k * DAY, end |-> session.originalEnd + k * DAY]
    ELSE IF session.mode = "resizeStart"
    THEN [start |-> session.originalStart + k * DAY, end |-> session.originalEnd]
    ELSE [start |-> session.originalStart, end |-> session.originalEnd + k * DAY]

\* step 3: the day-delta applied to the instants captured at drag start
DraggedInterval(session, last, k) ==
    IF session.mode = "move"
    THEN [start |-> session.originalStart + k * DAY, end |-> session.originalEnd + k * DAY]
    ELSE IF session.mode = "resizeStart"
    THEN [start |-> Min(session.originalStart + k * DAY, session.originalEnd),
          end |-> session.originalEnd]
    ELSE [start |-> session.originalStart,
          end |-> Max(session.originalEnd + k * DAY, session.originalStart)]

\* Mutant: a cancel keeps the last emitted values.
RevertedInterval_lastFrame(session, last) == last

\* cancel: the interval's pre-drag start/end
RevertedInterval(session, last) ==
    [start |-> session.originalStart, end |-> session.originalEnd]

\* pointer-down on the body (move) or an edge handle (resize) of the interval
PointerDown(mode) ==
    /\ app = "pira"
    /\ drag.state = "Idle"
    /\ drag.session < MaxSessions
    /\ drag' = [state |-> "Dragging", mode |-> mode,
                originalStart |-> interval.start, originalEnd |-> interval.end,
                session |-> drag.session + 1]
    /\ op' = "pointerDown" /\ arg' = <<>> /\ ret' = [emitted |-> <<>>]
    /\ UNCHANGED <<tabVars, interval, storeVars, windowVars>>

\* pointer-move: steps 1 to 5, the result emitted to the caller
PointerMove(deltaPx) ==
    /\ app = "pira"
    /\ drag.state = "Dragging"
    /\ interval' = DraggedInterval(drag, interval, DayDelta(deltaPx, DragPxPerDay))
    /\ op' = "pointerMove"
    /\ arg' = [deltaPx |-> deltaPx]
    /\ ret' = [dayDelta |-> DayDelta(deltaPx, DragPxPerDay), error |-> "none",
               emitted |-> <<interval'>>]
    /\ UNCHANGED <<tabVars, drag, storeVars, windowVars>>

\* pointer-up: the last emitted values are final
PointerUp ==
    /\ app = "pira"
    /\ drag.state = "Dragging"
    /\ drag' = [IdleSession EXCEPT !.session = drag.session]
    /\ op' = "pointerUp" /\ arg' = <<>> /\ ret' = [emitted |-> <<>>]
    /\ UNCHANGED <<tabVars, interval, storeVars, windowVars>>

\* cancel: the captured values are emitted once
CancelDrag ==
    /\ app = "pira"
    /\ drag.state = "Dragging"
    /\ interval' = RevertedInterval(drag, interval)
    /\ drag' = [IdleSession EXCEPT !.session = drag.session]
    /\ op' = "cancelDrag" /\ arg' = <<>> /\ ret' = [emitted |-> <<interval'>>]
    /\ UNCHANGED <<tabVars, storeVars, windowVars>>

NextDrag ==
    \/ \E mode \in DragModes : PointerDown(mode)
    \/ \E deltaPx \in DragDeltas : PointerMove(deltaPx)
    \/ PointerUp
    \/ CancelDrag

SpecDrag == Init /\ [][NextDrag]_vars

----------------------------------------------------------------------------
(* ConflictDetector (spec.md section 4.5; the repository sources at hand    *)
(* hold no overlap detection, so findConflicts is modelled from its         *)
(* description): group by resource, sort by start, sweep.                   *)

MaxIntervals == 3

ResourceIds == 1..2

Jan(d) == DateUTC(2025, 0, d, UTC_NOON_HOUR)
Feb(d) == DateUTC(2025, 1, d, UTC_NOON_HOUR)

\* A, B, C are the fixture of section 8; D starts the day after A ends, E
\* starts the day A ends, G carries no resource, R is reversed.
IntervalPool ==
    { [id |-> "A", start |-> Jan(1), end |-> Jan(10), resources |-> {1}],
      [id |-> "B", start |-> Jan(5), end |-> Jan(15), resources |-> {1}],
      [id |-> "C", start |-> Feb(1), end |-> Feb(5), resources |-> {1}],
      [id |-> "D", start |-> Jan(11), end |-> Jan(20), resources |-> {1, 2}],
      [id |-> "E", start |-> Jan(10), end |-> Jan(12), resources |-> {1, 2}],
      [id |-> "G", start |-> Jan(1), end |-> Jan(31), resources |-> {}],
      [id |-> "R", start |-> Jan(12), end |-> Jan(8), resources |-> {1}] }

IntervalLists ==
    UNION { {l \in [1..n -> IntervalPool] : \A i, j \in 1..n : i # j => l[i].id # l[j].id}
            : n \in 1..MaxIntervals }

\* Mutant: an interval starting on the day another ends does not overlap it.
Overlaps_exclusive(a, b) == a.start < b.end /\ b.start < a.end

\* two intervals conflict iff startA <= endB and startB <= endA
Overlaps(a, b) == a.start <= b.end /\ b.start <= a.end

\* the intervals carrying resource r, in list order
ResourceGroup(intervals, r) ==
    LET Carries(x) == r \in x.resources IN SelectSeq(intervals, Carries)

RECURSIVE InsertByStart(_, _)
InsertByStart(x, sorted) ==
    IF sorted = <<>> THEN <<x>>
    ELSE IF x.start < Head(sorted).start THEN <<x>> \o sorted
    ELSE <<Head(sorted)>> \o InsertByStart(x, Tail(sorted))

RECURSIVE SortByStart(_)
SortByStart(group) ==
    IF group = <<>> THEN <<>>
    ELSE InsertByStart(group[Len(group)], SortByStart(SubSeq(group, 1, Len(group) - 1)))

RECURSIVE RunningMaxEnd(_, _)
RunningMaxEnd(group, i) ==
    IF i = 1 THEN group[1].end ELSE Max(group[i].end, RunningMaxEnd(group, i - 1))

\* group[i] against the later-starting group[j..], as far as they start at or
\* before the running maximum end
RECURSIVE SweepFrom(_, _, _, _)
SweepFrom(group, r, i, j) ==
    IF j > Len(group) THEN <<>>
    ELSE IF group[j].start > RunningMaxEnd(group, i) THEN <<>>
    ELSE (IF Overlaps(group[i], group[j])
          THEN << [resourceId |-> r,
                   intervalIdA |-> group[i].id, intervalIdB |-> group[j].id,
                   overlapStart |-> Max(group[i].start, group[j].start),
                   overlapEnd |-> Min(group[i].end, group[j].end)] >>
          ELSE <<>>)
         \o SweepFrom(group, r, i, j + 1)

RECURSIVE Sweep(_, _, _)
Sweep(group, r, i) ==
    IF i >= Len(group) THEN <<>>
    ELSE SweepFrom(group, r, i, i + 1) \o Sweep(group, r, i + 1)

RECURSIVE ConflictsFrom(_, _)
ConflictsFrom(intervals, r) ==
    IF r \notin ResourceIds THEN <<>>
    ELSE Sweep(SortByStart(ResourceGroup(intervals, r)), r, 1)
         \o ConflictsFrom(intervals, r + 1)

findConflicts(intervals) == ConflictsFrom(intervals, 1)

CallFindConflicts(intervals) ==
    /\ app = "pira"
    /\ op' = "findConflicts"
    /\ arg' = [intervals |-> intervals]
    /\ ret' = findConflicts(intervals)
    /\ UNCHANGED <<tabVars, storeVars, dragVars, windowVars>>

NextConflicts == \E intervals \in IntervalLists : CallFindConflicts(intervals)

SpecConflicts == Init /\ [][NextConflicts]_vars

----------------------------------------------------------------------------
(* pm1 and pm2: the tabs, their view settings and the auto-range effect.    *)
(* React runs the effects of a state change before the next event, so an    *)
(* action is the handler followed by the effects whose dependencies changed.*)

MaxPmProjects == 2
\* behaviours of the tab model are explored up to this many events
MaxEvents == 4

Handled == events < MaxEvents /\ events' = events + 1

addDays_pm(t, days) == IF app = "pm2" THEN addDays_pm2(t, days) ELSE addDays_pm1(t, days)

\* relevant.flatMap(getProjectAllDates): the sorted dates of each project, in
\* the order of the projects
RECURSIVE FlatMapAllDates(_)
FlatMapAllDates(relevant) ==
    IF relevant = <<>> THEN <<>>
    ELSE getProjectAllDates(Head(relevant)) \o FlatMapAllDates(Tail(relevant))

\* lines 151-161: the projects the tab shows
RelevantProjects(projs, tab, v) ==
    LET Completed(p) == p.completed
        Open(p) == ~p.completed
        OfTeam(p) == p.teamMemberIds \cap TeamMembers(tab) # {}
        Shown(l) == IF v.includeCompleted THEN l ELSE SelectSeq(l, Open)
    IN IF tab = "Completed" THEN SelectSeq(projs, Completed)
       ELSE IF tab \notin {"Unified", "Teams", "Projects"}
       THEN Shown(SelectSeq(projs, OfTeam))
       ELSE Shown(projs)

\* Mutant: the effect does not look at autoRange.
autoRangeEffect_always(vs, tab, projs) ==
    IF vs[tab] = NoView THEN vs
    ELSE LET Ranged(all) ==
                 IF Len(all) = 0 THEN vs
                 ELSE [vs EXCEPT ![tab].startDate = fmt(addDays_pm(all[1], 0 - 7)),
                                 ![tab].endDate = fmt(addDays_pm(all[Len(all)], 7))]
         IN Ranged(FlatMapAllDates(RelevantProjects(projs, tab, vs[tab])))

\* lines 147-168: the effect on [projects, teams, activeTab, view.includeCompleted]
autoRangeEffect(vs, tab, projs) ==
    IF vs[tab] = NoView THEN vs
    ELSE IF ~vs[tab].autoRange THEN vs
    ELSE LET Ranged(all) ==
                 IF Len(all) = 0 THEN vs
                 ELSE [vs EXCEPT ![tab].startDate = fmt(addDays_pm(all[1], 0 - 7)),
                                 ![tab].endDate = fmt(addDays_pm(all[Len(all)], 7))]
         IN Ranged(FlatMapAllDates(RelevantProjects(projs, tab, vs[tab])))

\* line 136: if (!views[key]) setViews(v => ({ ...v, [key]: defaultView() }))
ensureView(vs, key) == IF vs[key] = NoView THEN [vs EXCEPT ![key] = defaultViewState] ELSE vs

\* the effects of lines 142 and 147 after a render in which views was vs: the
\* auto-range effect reads views[activeTab] of that render
TabEffects(vs, tab, projs) ==
    IF vs[tab] = NoView THEN ensureView(vs, tab)
    ELSE autoRangeEffect(ensureView(vs, tab), tab, projs)

\* line 184: onClick={() => setActiveTab(key)}
SetActiveTab(key) ==
    /\ app \in {"pm1", "pm2"}
    /\ Handled
    /\ key # activeTab
    /\ activeTab' = key
    /\ views' = TabEffects(views, key, pmProjects)
    /\ op' = "setActiveTab" /\ arg' = [partial |-> {}] /\ ret' = [ranged |-> views[key] # NoView]
    /\ UNCHANGED <<pmProjects, storeVars, dragVars, windowVars>>

\* Mutant: the submitted partial replaces the view of every tab opened.
MergePartial_allTabs(vs, tab, next) ==
    [t \in Tabs |->
        IF vs[t] = NoView THEN NoView
        ELSE [f \in DOMAIN vs[t] |-> IF f \in DOMAIN next THEN next[f] ELSE vs[t][f]]]

\* line 194: setViews(v => ({ ...v, [activeTab]: { ...v[activeTab], ...next } }))
MergePartial(vs, tab, next) ==
    [vs EXCEPT ![tab] = [f \in DOMAIN vs[tab] |-> IF f \in DOMAIN next THEN next[f] ELSE vs[tab][f]]]

\* what PanelControls hands to onChange (lines 233, 240, 255, 259, 276); the
\* check boxes hand over the opposite of what they show
Partials(v, tab) ==
    {[startDate |-> d, autoRange |-> FALSE] : d \in {DateStr(2025, 1, 1)}}
    \cup {[endDate |-> d, autoRange |-> FALSE] : d \in {DateStr(2025, 3, 31)}}
    \cup {[autoRange |-> ~v.autoRange]}
    \cup {[granularity |-> g] : g \in {"weeks", "months"} \ {v.granularity}}
    \cup (IF tab # "Completed" THEN {[includeCompleted |-> ~v.includeCompleted]} ELSE {})

\* PanelControls onChange; the auto-range effect follows when
\* view.includeCompleted has changed
PanelChange(next) ==
    /\ app \in {"pm1", "pm2"}
    /\ Handled
    /\ next \in Partials(views[activeTab], activeTab)
    /\ views' = IF "includeCompleted" \in DOMAIN next
                THEN autoRangeEffect(MergePartial(views, activeTab, next), activeTab, pmProjects)
                ELSE MergePartial(views, activeTab, next)
    /\ op' = "panelChange" /\ arg' = [partial |-> DOMAIN next]
    /\ ret' = [ranged |-> "includeCompleted" \in DOMAIN next]
    /\ UNCHANGED <<activeTab, pmProjects, storeVars, dragVars, windowVars>>

\* pm1 lines 395-398: ProjectsManager is shown on the Projects tab
addProject ==
    /\ app \in {"pm1", "pm2"}
    /\ Handled
    /\ activeTab = "Projects"
    /\ Len(pmProjects) < MaxPmProjects
    /\ pmProjects' = Append(pmProjects,
                            [startDates |-> <<>>, dueDates |-> <<>>, stabilizationDates |-> <<>>,
                             completeDates |-> <<>>, teamMemberIds |-> {}, completed |-> FALSE])
    /\ views' = autoRangeEffect(views, activeTab, pmProjects')
    /\ op' = "addProject" /\ arg' = [partial |-> {}] /\ ret' = [ranged |-> TRUE]
    /\ UNCHANGED <<activeTab, storeVars, dragVars, windowVars>>

\* the patches of the project editor: a start date before every seeded date,
\* the completed box, the first team's member
ProjectPatches ==
    {[startDates |-> <<DateStr(2024, 12, 1)>>], [completed |-> TRUE], [teamMemberIds |-> {"m1"}]}

\* pm1 line 399: ps.map(p => p.id === id ? { ...p, ...patch } : p)
updateProject(i, patch) ==
    /\ app \in {"pm1", "pm2"}
    /\ Handled
    /\ activeTab = "Projects"
    /\ i \in 1..Len(pmProjects)
    /\ pmProjects' = [pmProjects EXCEPT ![i] =
                         [f \in DOMAIN pmProjects[i] |->
                             IF f \in DOMAIN patch THEN patch[f] ELSE pmProjects[i][f]]]
    /\ pmProjects' # pmProjects
    /\ views' = autoRangeEffect(views, activeTab, pmProjects')
    /\ op' = "updateProject" /\ arg' = [partial |-> {}] /\ ret' = [ranged |-> TRUE]
    /\ UNCHANGED <<activeTab, storeVars, dragVars, windowVars>>

\* pm1 line 400: ps.filter(p => p.id !== id), once confirmed
removeProject(i) ==
    /\ app \in {"pm1", "pm2"}
    /\ Handled
    /\ activeTab = "Projects"
    /\ i \in 1..Len(pmProjects)
    /\ pmProjects' = SubSeq(pmProjects, 1, i - 1) \o SubSeq(pmProjects, i + 1, Len(pmProjects))
    /\ views' = autoRangeEffect(views, activeTab, pmProjects')
    /\ op' = "removeProject" /\ arg' = [partial |-> {}] /\ ret' = [ranged |-> TRUE]
    /\ UNCHANGED <<activeTab, storeVars, dragVars, windowVars>>

NextTabs ==
    \/ \E key \in Tabs : SetActiveTab(key)
    \/ \E next \in Partials(views[activeTab], activeTab) : PanelChange(next)
    \/ addProject
    \/ \E i \in 1..MaxPmProjects, patch \in ProjectPatches : updateProject(i, patch)
    \/ \E i \in 1..MaxPmProjects : removeProject(i)

SpecTabs == Init /\ [][NextTabs]_vars

----------------------------------------------------------------------------
(* pira: the project bars of each member (part_000 lines 238-252). *)

MaxAssigned == 3

\* projects with their assignees; "gone" is the id of a member since removed
AssignedPool ==
    { [id |-> 1, startMs |-> Jan(15), assigneeIds |-> <<"m1">>],
      [id |-> 2, startMs |-> Jan(1), assigneeIds |-> <<"m1", "m2">>],
      [id |-> 3, startMs |-> Jan(1), assigneeIds |-> <<"gone", "m1">>],
      [id |-> 4, startMs |-> Jan(10), assigneeIds |-> <<"gone">>],
      [id |-> 5, startMs |-> Jan(5), assigneeIds |-> <<>>] }

\* arr.sort((a, b) => a.startMs - b.startMs): stable
RECURSIVE InsertByStartMs(_, _)
InsertByStartMs(x, sorted) ==
    IF sorted = <<>> THEN <<x>>
    ELSE IF x.startMs < Head(sorted).startMs THEN <<x>> \o sorted
    ELSE <<Head(sorted)>> \o InsertByStartMs(x, Tail(sorted))

\* Mutant: the lists are left in the order of store.projects.
SortByStartMs_unsorted(arr) == arr

RECURSIVE SortByStartMs(_)
SortByStartMs(arr) ==
    IF arr = <<>> THEN <<>>
    ELSE InsertByStartMs(arr[Len(arr)], SortByStartMs(SubSeq(arr, 1, Len(arr) - 1)))

\* byMember[m.id] = [] for every member; a project is pushed once for each of
\* its assignee ids that is a key
projectsPerMember(storeProjects, members) ==
    [m \in members |->
        LET Assigned(q) == \E k \in 1..Len(q.assigneeIds) : q.assigneeIds[k] = m
        IN SortByStartMs(SelectSeq(storeProjects, Assigned))]

CallProjectsPerMember(storeProjects, members) ==
    /\ app = "pira"
    /\ op' = "projectsPerMember"
    /\ arg' = [projects |-> storeProjects, members |-> members]
    /\ ret' = [byMember |-> projectsPerMember(storeProjects, members), error |-> "none"]
    /\ UNCHANGED <<tabVars, storeVars, dragVars, windowVars>>

AssignedLists ==
    UNION { {l \in [1..n -> AssignedPool] : \A i, j \in 1..n : i # j => l[i].id # l[j].id}
            : n \in 0..MaxAssigned }

NextGroup ==
    \E l \in AssignedLists, members \in SUBSET {"m1", "m2"} : CallProjectsPerMember(l, members)

SpecGroup == Init /\ [][NextGroup]_vars

----------------------------------------------------------------------------
(* Properties *)

IsTimeline == op = "Timeline"
IsWeekView == op = "TimelineView" /\ arg.view.granularity = "weeks"
IsMonthView == op = "TimelineView" /\ arg.view.granularity = "months"
IsWeekColumns == op = "generateTimelineColumns" /\ arg.timelineView = "weeks"
WindowIsDated == IsTimeline /\ arg.winStart # NaN /\ arg.winEnd # NaN

\* 12:00 UTC of the first day of the month of t, `add` months later
MonthFirstNoon(t, add) ==
    DaysFromCivil(getUTCFullYear(t) + (getUTCMonth(t) + add) \div 12,
                  ((getUTCMonth(t) + add) % 12) + 1, 1) * DAY + 12
\* local midnight of the first day of the month of Date t, `add` months later
MonthFirstLocal(t, add) ==
    DaysFromCivil(getFullYear(t) + (getMonth(t) + add) \div 12,
                  ((getMonth(t) + add) % 12) + 1, 1) * DAY - tz
\* months from the month of a to the month of b
MonthsBetweenUTC(a, b) ==
    (getUTCFullYear(b) * 12 + getUTCMonth(b)) - (getUTCFullYear(a) * 12 + getUTCMonth(a))
MonthsBetweenLocal(a, b) ==
    (getFullYear(b) * 12 + getMonth(b)) - (getFullYear(a) * 12 + getMonth(a))

\* C1: for week granularity the first tick of every weekly tick generator
\* (weeklyTicks; tickGenerator with g = 'weeks' in both variants) falls on a
\* Sunday.  The first variant of tickGenerator starts at window.start itself.
C1_FirstWeekTickIsSunday ==
    /\ (IsTimeline /\ Len(ret.weekTicks) > 0) => getUTCDay(ret.weekTicks[1]) = 0
    /\ (IsWeekView /\ Len(ret.ticks) > 0) => getDay(ret.ticks[1]) = 0

\* C2 as claimed: the first weekly tick is the week-start on or before
\* window.start (first <= start, start - first <= 6 days, equal on a Sunday).
C2_FirstWeekTickOnOrBefore ==
    /\ (WindowIsDated /\ Len(ret.weekTicks) > 0) =>
          /\ ret.weekTicks[1] <= arg.winStart
          /\ arg.winStart - ret.weekTicks[1] <= 6 * DAY
          /\ (getUTCDay(arg.winStart) = 0 => ret.weekTicks[1] = arg.winStart)
    /\ (IsWeekColumns /\ Len(ret.columns) > 0) =>
          /\ ret.columns[1].date <= arg.start
          /\ arg.start - ret.columns[1].date <= 6 * DAY
          /\ (getDay(arg.start) = 0 => ret.columns[1].date = arg.start)

\* C2 amended: generateTimelineColumns starts at the Sunday on or before
\* window.start; weeklyTicks starts at the first Sunday on or AFTER window.start
\* (first >= start, first - start <= 6 days, equal when start is a Sunday).
C2_FirstWeekTick ==
    /\ (WindowIsDated /\ Len(ret.weekTicks) > 0) =>
          /\ ret.weekTicks[1] >= arg.winStart
          /\ ret.weekTicks[1] - arg.winStart <= 6 * DAY
          /\ (getUTCDay(arg.winStart) = 0 => ret.weekTicks[1] = arg.winStart)
    /\ (IsWeekColumns /\ Len(ret.columns) > 0) =>
          /\ ret.columns[1].date <= arg.start
          /\ arg.start - ret.columns[1].date <= 6 * DAY
          /\ (getDay(arg.start) = 0 => ret.columns[1].date = arg.start)

\* weeklyTicks ran on a window that starts midweek, and moved forward
C2_Witness ==
    /\ WindowIsDated /\ Len(ret.weekTicks) > 0
    /\ getUTCDay(arg.winStart) # 0
    /\ ret.weekTicks[1] > arg.winStart

\* C3 as claimed: for month granularity the first tick is the 1st of
\* window.start's month even when that day is before window.start.
C3_FirstMonthTickKept ==
    /\ (WindowIsDated /\ MonthFirstNoon(arg.winStart, 0) <= arg.winEnd) =>
          /\ Len(ret.monthTicks) > 0
          /\ ret.monthTicks[1] = MonthFirstNoon(arg.winStart, 0)
    /\ (IsMonthView /\ MonthFirstLocal(ret.start, 0) <= ret.end) =>
          /\ Len(ret.ticks) > 0
          /\ ret.ticks[1] = MonthFirstLocal(ret.start, 0)

\* C3 amended: tickGenerator (both variants) emits the 1st of window.start's
\* month as its first tick even when it is before window.start; monthlyTicks
\* drops that tick when it is strictly before window.start, so that its first
\* tick is the first 1st-of-month on or after window.start.
C3_FirstMonthTick ==
    /\ (IsMonthView /\ MonthFirstLocal(ret.start, 0) <= ret.end) =>
          /\ Len(ret.ticks) > 0
          /\ ret.ticks[1] = MonthFirstLocal(ret.start, 0)
    /\ WindowIsDated =>
          /\ \A i \in 1..Len(ret.monthTicks) : ret.monthTicks[i] >= arg.winStart
          /\ Len(ret.monthTicks) > 0 =>
                ret.monthTicks[1] = IF getUTCDate(arg.winStart) = 1
                                    THEN MonthFirstNoon(arg.winStart, 0)
                                    ELSE MonthFirstNoon(arg.winStart, 1)
          /\ ((IF getUTCDate(arg.winStart) = 1 THEN MonthFirstNoon(arg.winStart, 0)
               ELSE MonthFirstNoon(arg.winStart, 1)) <= arg.winEnd) =>
                Len(ret.monthTicks) > 0

\* monthlyTicks ran on a window that starts inside a month and dropped the head
C3_Witness ==
    /\ WindowIsDated /\ getUTCDate(arg.winStart) # 1
    /\ Len(ret.monthTicks) > 0
    /\ ret.monthTicks[1] > arg.winStart

\* C4: for month granularity and a window that starts on the 1st of a month
\* the ticks are exactly the 1st of each month from window.start's month
\* through window.end's month, ascending; [2025-01-01, 2025-03-31] gives
\* 2025-01-01, 2025-02-01, 2025-03-01.
C4_MonthTicksExact ==
    /\ (WindowIsDated /\ getUTCDate(arg.winStart) = 1) =>
          /\ Len(ret.monthTicks) = Max(0, MonthsBetweenUTC(arg.winStart, arg.winEnd) + 1)
          /\ \A i \in 1..Len(ret.monthTicks) :
                ret.monthTicks[i] = MonthFirstNoon(arg.winStart, i - 1)
    /\ (IsMonthView /\ getDate(ret.start) = 1) =>
          /\ Len(ret.ticks) = Max(0, MonthsBetweenLocal(ret.start, ret.end) + 1)
          /\ \A i \in 1..Len(ret.ticks) : ret.ticks[i] = MonthFirstLocal(ret.start, i - 1)
    /\ (IsTimeline /\ arg.winStart = DaysFromCivil(2025, 1, 1) * DAY + 12
                    /\ arg.winEnd = DaysFromCivil(2025, 3, 31) * DAY + 12) =>
          ret.monthTicks = <<DaysFromCivil(2025, 1, 1) * DAY + 12,
                             DaysFromCivil(2025, 2, 1) * DAY + 12,
                             DaysFromCivil(2025, 3, 1) * DAY + 12>>

\* the fixture window [2025-01-01, 2025-03-31] was rendered
C4_Witness ==
    /\ IsTimeline
    /\ toInputYYYYMMDD(arg.winStart) = DateStr(2025, 1, 1)
    /\ toInputYYYYMMDD(arg.winEnd) = DateStr(2025, 3, 31)
    /\ Len(ret.monthTicks) = 3

\* a bar drawn inside the window of a rendered row
BarInside(start, end, s, e) == start <= s /\ s <= e /\ e + DAY <= end

\* C5: in percentage mode the end date is inclusive: the width of a bar is the
\* share of (end - start + 1 day) in the window span, so that a same-day bar
\* is one day wide.  Widths are numerators over ret.den.
C5_PercentWidthInclusive ==
    /\ (op = "TimelineView" /\ app = "pm1" /\ ret.hasRow
           /\ BarInside(ret.start, ret.end, ret.span.start, ret.span.end)) =>
          ret.width = 100 * (ret.span.end - ret.span.start + DAY)
    /\ (op = "TimelineView" /\ app = "pm2" /\ ret.hasRow
           /\ BarInside(ret.start, ret.end, ret.span.start, ret.span.end)) =>
          ret.width = ret.contentWidth * (ret.span.end - ret.span.start + DAY)
    /\ (op = "generateTimelineColumns" /\ Len(ret.columns) > 1
           /\ BarInside(ret.bar.timelineStart, ret.bar.timelineEnd,
                        ret.bar.startDate, ret.bar.endDate)) =>
          ret.bar.width = 100 * (ret.bar.endDate - ret.bar.startDate + DAY)

ReversedTimeline == WindowIsDated /\ arg.winEnd < arg.winStart
ReversedView_pm1 == op = "TimelineView" /\ app = "pm1" /\ ret.end < ret.start

\* C6 as claimed: for a window whose end is before its start, tick and
\* geometry generation ends in the InvalidWindow error.
C6_ReversedWindowFails ==
    /\ ReversedTimeline => ret.error = "InvalidWindow"
    /\ ReversedView_pm1 => ret.error = "InvalidWindow"

\* C6 amended: for a window whose end is before its start no error is raised;
\* weeklyTicks and monthlyTicks return the empty sequence, tickGenerator
\* yields at most one tick (a period start not later than window.end), and
\* TimelineView lays bars out over a span of one millisecond, at 0% or 100%.
C6_ReversedWindowDegenerate ==
    /\ ReversedTimeline =>
          /\ ret.error = "none"
          /\ ret.weekTicks = <<>>
          /\ ret.monthTicks = <<>>
    /\ ReversedView_pm1 =>
          /\ ret.error = "none"
          /\ Len(ret.ticks) <= 1
          /\ \A i \in 1..Len(ret.ticks) : ret.ticks[i] <= ret.end
          /\ ret.den = 1
          /\ ret.left \in {0, 100}
          /\ ret.width \in {0, 100}

\* a reversed window was rendered, whose month holds a 1st before window.end
C6_Witness ==
    /\ ReversedTimeline
    /\ MonthFirstNoon(arg.winStart, 0) <= arg.winEnd
    /\ ret.monthTicks = <<>>

\* C7: for every text that is not a valid calendar date (empty, not numeric,
\* month outside 1..12, day outside its month) toEpochUTCNoon returns NaN.
C7_InvalidTextIsNaN ==
    (op = "toEpochUTCNoon" /\ ~IsValidDateStr(arg)) => ret.ms = NaN

\* C8: for every valid zero-padded YYYY-MM-DD text d,
\* toInputYYYYMMDD(toEpochUTCNoon(d)) = d, in App.tsx and in dateMath.ts.
C8_RoundTrip ==
    (op = "toEpochUTCNoon" /\ IsValidDateStr(arg)) =>
        /\ ret.text = arg
        /\ ret.text_dateMath = arg

IsNoon(x) == x # NaN /\ x % DAY = UTC_NOON_HOUR

\* C9: every date the engine stores or produces is an instant at 12:00 UTC:
\* the window bounds, toEpochUTCNoon of a valid date, addDays of an instant,
\* and every tick of weeklyTicks and monthlyTicks on a noon window.
C9_AllNoonUTC ==
    /\ app = "pira" => IsNoon(winStart) /\ IsNoon(winEnd)
    /\ (op = "toEpochUTCNoon" /\ IsValidDateStr(arg)) => IsNoon(ret.ms)
    /\ (op = "addDays" /\ IsNoon(arg.ms)) => IsNoon(ret)
    /\ (IsTimeline /\ IsNoon(arg.winStart) /\ IsNoon(arg.winEnd)) =>
          /\ \A i \in 1..Len(ret.weekTicks) : IsNoon(ret.weekTicks[i])
          /\ \A i \in 1..Len(ret.monthTicks) : IsNoon(ret.monthTicks[i])

IsQuarterView == op = "TimelineView" /\ arg.view.granularity = "quarters"
IsYearView == op = "TimelineView" /\ arg.view.granularity = "years"

\* local midnight of the first day of month m0 (0-based, may exceed 11) of year y
PeriodFirstLocal(y, m0) == DaysFromCivil(y + m0 \div 12, (m0 % 12) + 1, 1) * DAY - tz

\* the ticks are the period starts from month m0 of year y, every `step`
\* months, as long as they are not later than end
PeriodTicks(ticks, y, m0, step, end) ==
    /\ \A i \in 1..Len(ticks) :
          /\ ticks[i] = PeriodFirstLocal(y, m0 + step * (i - 1))
          /\ ticks[i] <= end
    /\ PeriodFirstLocal(y, m0 + step * Len(ticks)) > end

\* C11: for quarter (year) granularity the first tick is the first day of the
\* calendar quarter (January 1 of the year) that holds window.start, and each
\* following tick is the 1st of the month 3 months (1 year) after the one
\* before, up to window.end.
C11_QuarterYearTicks ==
    /\ IsQuarterView =>
          PeriodTicks(ret.ticks, getFullYear(ret.start),
                      (getMonth(ret.start) \div 3) * 3, 3, ret.end)
    /\ IsYearView =>
          PeriodTicks(ret.ticks, getFullYear(ret.start), 0, 12, ret.end)

\* quarter ticks were generated for a window that starts inside a quarter and
\* spans a quarter boundary
C11_Witness ==
    /\ IsQuarterView
    /\ Len(ret.ticks) >= 2
    /\ ret.ticks[1] < ret.start
    /\ getMonth(ret.ticks[2]) % 3 = 0

IsDayColumns == op = "generateTimelineColumns" /\ arg.timelineView = "days"

IsWidth == op = "widthFromDates"

\* C13: for any day d and any positive pxPerDay the width of the same-day
\* interval is one day's width: widthFromDates(d, d, px) = px and
\* wFromDates(d, d) = PX_PER_DAY (widths are numerators over DAY).
C13_SameDayWidth ==
    (IsWidth /\ arg.startMs # NaN /\ arg.endMs = arg.startMs /\ arg.pxPerDay > 0) =>
        /\ ret.width = arg.pxPerDay * DAY
        /\ ret.width_dateMath = PX_PER_DAY * DAY

\* the width of a same-day bar was computed at 16 px per day
C13_Witness ==
    /\ IsWidth /\ arg.startMs # NaN /\ arg.endMs = arg.startMs
    /\ arg.pxPerDay = 16
    /\ ret.width = 16 * DAY

\* C14: for an interval whose end date is before its start date and any
\* non-negative pxPerDay the bar width is 0, never negative.
C14_ReversedWidthZero ==
    (IsWidth /\ arg.startMs # NaN /\ arg.endMs # NaN /\ arg.endMs < arg.startMs) =>
        /\ ret.width = 0
        /\ ret.width_dateMath = 0

\* the width of a bar that ends two weeks before it starts was computed
C14_Witness ==
    /\ IsWidth /\ arg.startMs # NaN /\ arg.endMs # NaN
    /\ arg.endMs + 2 * DAY <= arg.startMs
    /\ arg.pxPerDay > 0
    /\ ret.width = 0

IsParse == op = "parseCommaDates"

\* the Date parseDate makes of a well-formed entry: the local midnight of the
\* local day that holds the entry's midnight UTC
EntryDate(s) ==
    DayOf(DaysFromCivil(s[1].n, s[2].n, s[3].n) * DAY + tz) * DAY - tz

SavedAsSubmitted ==
    \E i \in 1..Len(projects) :
        /\ projects[i].startDate = arg.startDate
        /\ projects[i].dueDate = arg.dueDate

\* C16: saving a project whose due date is before its start date is not
\* rejected: the project is stored with the reversed range, and the reversal
\* is flagged to the caller as a ReversedRangeWarning.
C16_ReversedRangeWarned ==
    /\ (op = "saveProjectFromForm" /\ arg.name # ""
           /\ IsValidDateStr(arg.startDate) /\ IsValidDateStr(arg.dueDate)
           /\ DateParse(arg.dueDate) < DateParse(arg.startDate)) =>
          /\ ret.alert = "none"
          /\ SavedAsSubmitted
          /\ ret.warning = "ReversedRangeWarning"
    /\ (op = "upsertProject" /\ arg.dueMs < arg.startMs) =>
          /\ \E i \in 1..Len(projects) : projects[i] = arg
          /\ ret.warning = "ReversedRangeWarning"

\* what clamp is to return for min <= max
Clamped(value, min, max) ==
    IF value < min THEN min ELSE IF value > max THEN max ELSE value

\* C17: for all value, min and max with min <= max each clamp returns min when
\* value < min, max when value > max and value otherwise, so the result lies
\* in [min, max].
C17_ClampInRange ==
    (op = "clamp" /\ arg.min <= arg.max) =>
        /\ ret.dateMath = Clamped(arg.value, arg.min, arg.max)
        /\ ret.App = Clamped(arg.value, arg.min, arg.max)
        /\ ret.ProjectManagementApp = Clamped(arg.value, arg.min, arg.max)
        /\ arg.min <= ret.App /\ ret.App <= arg.max

\* a value below the range was clamped to the lower bound
C17_Witness ==
    /\ op = "clamp" /\ arg.min < arg.max
    /\ arg.value < arg.min
    /\ ret.App = arg.min

\* C18: for every instant a and every integer n, positive, zero or negative,
\* the whole-day difference (addDays(a, n) - a) / MS_PER_DAY is n, whatever
\* the host time zone; xFromDate maps that difference to n * PX_PER_DAY px.
C18_AddDaysDelta ==
    (op = "addDays" /\ arg.ms # NaN) =>
        /\ ret # NaN
        /\ ret - arg.ms = arg.days * DAY
        /\ xFromDate_dateMath(ret, arg.ms) = arg.days * PX_PER_DAY * DAY

\* days were subtracted across the turn of a year
C18_Witness ==
    /\ op = "addDays" /\ arg.ms # NaN
    /\ arg.days < 0
    /\ getUTCFullYear(ret) < getUTCFullYear(arg.ms)

IsDragging(mode) == drag.state = "Dragging" /\ drag.mode = mode

\* C19: in move mode every pointer-move with a pixel delta equivalent to k
\* days emits start = originalStart + k days and end = originalEnd + k days,
\* so that the duration is the same after any sequence of pointer-moves as at
\* drag start.
C19_MoveKeepsDuration ==
    /\ IsDragging("move") =>
          interval.end - interval.start = drag.originalEnd - drag.originalStart
    /\ (IsDragging("move") /\ op = "pointerMove") =>
          /\ interval.start = drag.originalStart + ret.dayDelta * DAY
          /\ interval.end = drag.originalEnd + ret.dayDelta * DAY
          /\ \A k \in (0 - 11)..11 : arg.deltaPx = k * DragPxPerDay => ret.dayDelta = k

\* a second pointer-move of a move session, away from the captured position
C19_Witness ==
    /\ IsDragging("move") /\ op = "pointerMove"
    /\ ret.dayDelta = 0 - 2
    /\ interval.start = drag.originalStart - 2 * DAY
    /\ drag.session = 2

\* C20: in resizeStart or resizeEnd mode no emitted pair has start > end: a
\* delta that would push the dragged edge past its counterpart clamps it to
\* the counterpart and is not an error; resizing the start of
\* [Jan 10, Jan 20] past Jan 20 yields start = Jan 20.
C20_ResizeClamps ==
    /\ (IsDragging("resizeStart") \/ IsDragging("resizeEnd")) => interval.start <= interval.end
    /\ (IsDragging("resizeStart") /\ op = "pointerMove") =>
          /\ ret.error = "none"
          /\ interval.end = drag.originalEnd
          /\ interval.start = IF drag.originalStart + ret.dayDelta * DAY > drag.originalEnd
                              THEN drag.originalEnd
                              ELSE drag.originalStart + ret.dayDelta * DAY
    /\ (IsDragging("resizeEnd") /\ op = "pointerMove") =>
          /\ ret.error = "none"
          /\ interval.start = drag.originalStart
          /\ interval.end = IF drag.originalEnd + ret.dayDelta * DAY < drag.originalStart
                            THEN drag.originalStart
                            ELSE drag.originalEnd + ret.dayDelta * DAY
    /\ (IsDragging("resizeStart") /\ op = "pointerMove"
           /\ drag.originalStart = DateUTC(2025, 0, 10, UTC_NOON_HOUR)
           /\ drag.originalEnd = DateUTC(2025, 0, 20, UTC_NOON_HOUR)
           /\ ret.dayDelta > 10) =>
          interval.start = DateUTC(2025, 0, 20, UTC_NOON_HOUR)

\* the start of [Jan 10, Jan 20] was dragged eleven days to the right
C20_Witness ==
    /\ IsDragging("resizeStart") /\ op = "pointerMove"
    /\ drag.originalStart = DateUTC(2025, 0, 10, UTC_NOON_HOUR)
    /\ drag.originalEnd = DateUTC(2025, 0, 20, UTC_NOON_HOUR)
    /\ ret.dayDelta = 11
    /\ interval.start = interval.end

\* C21: the DragController goes Idle -> Dragging -> Idle: from Dragging a
\* cancel emits the start/end captured at drag start exactly once and the
\* state is then Idle; a pointer-up emits nothing, leaves the last emitted
\* values as they are and the state Idle; nothing is emitted while Idle.
C21_DragLifecycle ==
    [][ /\ drag.state = "Idle" =>
              /\ interval' = interval
              /\ ret'.emitted = <<>>
              /\ drag'.state = "Dragging"
        /\ (drag.state = "Dragging" /\ drag'.state = "Dragging") =>
              /\ drag' = drag
              /\ ret'.emitted = <<interval'>>
        /\ (drag.state = "Dragging" /\ drag'.state = "Idle") =>
              \/ /\ op' = "cancelDrag"
                 /\ ret'.emitted = <<[start |-> drag.originalStart, end |-> drag.originalEnd]>>
                 /\ interval' = [start |-> drag.originalStart, end |-> drag.originalEnd]
              \/ /\ op' = "pointerUp"
                 /\ ret'.emitted = <<>>
                 /\ interval' = interval
      ]_vars

\* the second session, started from a committed change, was cancelled
C21_Witness ==
    /\ op = "cancelDrag" /\ drag.state = "Idle" /\ drag.session = 2
    /\ interval.start # DateUTC(2025, 0, 10, UTC_NOON_HOUR)
    /\ ret.emitted = <<interval>>

\* the conflicts reported for the unordered pair a, b on resource r
ReportsOf(a, b, r) ==
    {k \in 1..Len(ret) :
        /\ ret[k].resourceId = r
        /\ {ret[k].intervalIdA, ret[k].intervalIdB} = {a.id, b.id}}

\* C22: findConflicts emits a Conflict for A and B on a resource iff both
\* carry it and startA <= endB and startB <= endA, once per unordered pair
\* per shared resource, with overlapStart = max of the starts and overlapEnd
\* = min of the ends; intervals of which one ends the day before the other
\* begins are not reported; for A [Jan 1, Jan 10], B [Jan 5, Jan 15],
\* C [Feb 1, Feb 5] the result is the one conflict A-B over [Jan 5, Jan 10].
C22_FindConflicts ==
    op = "findConflicts" =>
        LET l == arg.intervals IN
        /\ \A i, j \in 1..Len(l), r \in ResourceIds : i < j =>
              IF /\ r \in l[i].resources /\ r \in l[j].resources
                 /\ l[i].start <= l[j].end /\ l[j].start <= l[i].end
              THEN /\ Cardinality(ReportsOf(l[i], l[j], r)) = 1
                   /\ \A k \in ReportsOf(l[i], l[j], r) :
                         /\ ret[k].overlapStart = Max(l[i].start, l[j].start)
                         /\ ret[k].overlapEnd = Min(l[i].end, l[j].end)
                         /\ l[i].end + DAY # l[j].start /\ l[j].end + DAY # l[i].start
              ELSE ReportsOf(l[i], l[j], r) = {}
        /\ \A k \in 1..Len(ret) :
              \E i, j \in 1..Len(l) :
                 i < j /\ k \in ReportsOf(l[i], l[j], ret[k].resourceId)
        /\ (Len(l) = 3 /\ {l[i].id : i \in 1..3} = {"A", "B", "C"}) =>
              /\ Len(ret) = 1
              /\ ret[1].resourceId = 1
              /\ {ret[1].intervalIdA, ret[1].intervalIdB} = {"A", "B"}
              /\ ret[1].overlapStart = Jan(5) /\ ret[1].overlapEnd = Jan(10)

\* the fixture given out of start order, with one conflict reported
C22_Witness ==
    /\ op = "findConflicts"
    /\ Len(arg.intervals) = 3
    /\ arg.intervals[1].id = "C" /\ arg.intervals[2].id = "B" /\ arg.intervals[3].id = "A"
    /\ Len(ret) = 1 /\ ret[1].overlapEnd = Jan(10)

\* two intervals sharing two resources and one day are reported twice, and
\* the one starting the day after is not
C22_WitnessTouching ==
    /\ op = "findConflicts"
    /\ Len(arg.intervals) = 3
    /\ {arg.intervals[i].id : i \in 1..3} = {"A", "D", "E"}
    /\ Len(ret) = 3

\* the dates of the projects the active tab shows, and whether the auto-range
\* effect has just set the active tab's window from them
RelevantDates == FlatMapAllDates(RelevantProjects(pmProjects, activeTab, views[activeTab]))
AutoRanged ==
    /\ op \in {"setActiveTab", "panelChange", "addProject", "updateProject", "removeProject"}
    /\ ret.ranged
    /\ views[activeTab] # NoView
    /\ views[activeTab].autoRange
    /\ Len(RelevantDates) > 0

LocalDay(t) == DaysFromCivil(getFullYear(t), getMonth(t) + 1, getDate(t))
EarliestRelevant == SortAsc(RelevantDates)[1]
LatestRelevant == SortAsc(RelevantDates)[Len(RelevantDates)]

\* C23: whenever the auto-range effect updates the active tab's window, the
\* new startDate is 7 days before the earliest and the new endDate 7 days
\* after the latest date among all relevant projects, so every date of every
\* relevant project lies inside [startDate, endDate], whatever the order of
\* the projects in the list.
C23_AutoRangeCoversAll ==
    AutoRanged =>
        /\ views[activeTab].startDate = DateStrOfDay(LocalDay(EarliestRelevant) - 7)
        /\ views[activeTab].endDate = DateStrOfDay(LocalDay(LatestRelevant) + 7)
        /\ \A k \in 1..Len(RelevantDates) :
              /\ parseDate(views[activeTab].startDate) <= RelevantDates[k]
              /\ RelevantDates[k] <= parseDate(views[activeTab].endDate)

\* what the effect does set: the window runs from a week before the earliest
\* date of the first relevant project to a week after the latest date of the
\* last one, as toISOString prints them
C23_AutoRangeFirstAndLast ==
    AutoRanged =>
        /\ views[activeTab].startDate = fmt(addDays_pm(RelevantDates[1], 0 - 7))
        /\ views[activeTab].endDate = fmt(addDays_pm(RelevantDates[Len(RelevantDates)], 7))

\* C24: editing Start or End sets autoRange to false for the active tab in the
\* same update, and while a tab's autoRange is false no change to projects,
\* the active tab or includeCompleted alters that tab's startDate or endDate;
\* only a direct edit of Start or End does.
C24_ManualRangeKept ==
    [][ /\ (op' = "panelChange" /\ arg'.partial \cap {"startDate", "endDate"} # {}) =>
              ~views'[activeTab].autoRange
        /\ \A t \in Tabs :
              (/\ views[t] # NoView
               /\ ~views[t].autoRange
               /\ \/ views'[t].startDate # views[t].startDate
                  \/ views'[t].endDate # views[t].endDate)
              => /\ op' = "panelChange"
                 /\ t = activeTab
                 /\ arg'.partial \cap {"startDate", "endDate"} # {}
      ]_vars

\* the effect ran for a tab with dated projects whose Start was set by hand
C24_Witness ==
    /\ op \in {"setActiveTab", "updateProject"}
    /\ ret.ranged
    /\ views[activeTab] # NoView
    /\ ~views[activeTab].autoRange
    /\ Len(RelevantDates) > 0
    /\ views[activeTab].startDate = DateStr(2025, 1, 1)
    /\ views[activeTab].startDate # fmt(addDays_pm(RelevantDates[1], 0 - 7))

FieldsKept(old, new, changed) ==
    /\ DOMAIN new = DOMAIN old
    /\ \A f \in DOMAIN old \ changed : new[f] = old[f]

\* C30 as stated: a PanelControls change applied while tab T is active
\* modifies only views[T] and only the fields in the submitted partial;
\* ensureView never overwrites an existing ViewState.
C30_OnlySubmittedFields ==
    [][ /\ op' = "panelChange" =>
              \A t \in Tabs :
                 IF t = activeTab THEN FieldsKept(views[t], views'[t], arg'.partial)
                 ELSE views'[t] = views[t]
        /\ op' = "setActiveTab" =>
              \A t \in Tabs :
                 views[t] # NoView =>
                    FieldsKept(views[t], views'[t], {"startDate", "endDate"})
      ]_vars

\* C30, amended: a PanelControls change modifies only views[T], and only the
\* fields in the submitted partial, except that a change of includeCompleted
\* re-runs the auto-range effect, which may set startDate and endDate of
\* views[T] when its autoRange is on; a tab switch leaves every field but the
\* auto-ranged startDate and endDate of an existing ViewState as it was.
C30_OnlySubmittedFieldsOrRange ==
    [][ /\ op' = "panelChange" =>
              \A t \in Tabs :
                 IF t = activeTab
                 THEN FieldsKept(views[t], views'[t],
                                 IF "includeCompleted" \in arg'.partial /\ views[t].autoRange
                                 THEN arg'.partial \cup {"startDate", "endDate"}
                                 ELSE arg'.partial)
                 ELSE views'[t] = views[t]
        /\ op' = "setActiveTab" =>
              \A t \in Tabs :
                 views[t] # NoView =>
                    FieldsKept(views[t], views'[t],
                               IF t = activeTab' /\ views[t].autoRange
                               THEN {"startDate", "endDate"} ELSE {})
      ]_vars

\* a partial was merged into one tab's view while another tab had a view
C30_Witness ==
    /\ op = "panelChange"
    /\ arg.partial = {"endDate", "autoRange"}
    /\ activeTab = "Completed"
    /\ views["Completed"].endDate = DateStr(2025, 3, 31)
    /\ views["Unified"] # NoView /\ views["Unified"].endDate # DateStr(2025, 3, 31)

\* C25: calculateProjectPosition keeps every project bar inside the track:
\* for every project and every non-empty column list, left >= 0% and
\* left + width <= 100%.
C25_BarInsideTrack ==
    (op = "generateTimelineColumns" /\ Len(ret.columns) > 0) =>
        /\ ret.bar.left >= 0
        /\ ret.bar.left + ret.bar.width <= 100 * ret.bar.den

\* C26: after grouping, a project appears in a member's list exactly when
\* that member exists and is among the project's assignees; assignee ids that
\* match no existing member are skipped without error; each member's list is
\* ordered by start date ascending.
C26_ProjectsPerMember ==
    op = "projectsPerMember" =>
        /\ ret.error = "none"
        /\ DOMAIN ret.byMember = arg.members
        /\ \A m \in arg.members :
              LET list == ret.byMember[m] IN
              /\ \A i \in 1..Len(arg.projects) :
                    LET q == arg.projects[i] IN
                    Cardinality({k \in 1..Len(list) : list[k] = q})
                       = IF \E a \in 1..Len(q.assigneeIds) : q.assigneeIds[a] = m THEN 1 ELSE 0
              /\ \A k \in 1..Len(list) : \E i \in 1..Len(arg.projects) : list[k] = arg.projects[i]
              /\ \A k \in 1..(Len(list) - 1) : list[k].startMs <= list[k + 1].startMs

\* a member's list was reordered, and a project of a removed member skipped
C26_Witness ==
    /\ op = "projectsPerMember"
    /\ arg.members = {"m1", "m2"}
    /\ Len(arg.projects) = 3
    /\ arg.projects[1].id = 1 /\ arg.projects[2].id = 4 /\ arg.projects[3].id = 3
    /\ Len(ret.byMember["m1"]) = 2
    /\ ret.byMember["m1"][1].id = 3
    /\ ret.byMember["m2"] = <<>>

UniqueIds(list) == \A i, j \in 1..Len(list) : i # j => list[i].id # list[j].id

\* C27: after any sequence of upsertProject calls no two projects share an
\* id: upserting an id already present replaces that project in place (list
\* length and the order and content of all other projects unchanged), and
\* upserting a new id appends exactly one project at the end.
C27_UpsertKeepsIdsUnique ==
    [][ (app = "pira" /\ op' = "upsertProject") =>
           /\ UniqueIds(projects) => UniqueIds(projects')
           /\ IF \E i \in 1..Len(projects) : projects[i].id = arg'.id
              THEN /\ Len(projects') = Len(projects)
                   /\ \A i \in 1..Len(projects) :
                         projects'[i] = IF projects[i].id = arg'.id THEN arg' ELSE projects[i]
              ELSE projects' = Append(projects, arg')
      ]_vars

C27_IdsUnique == app = "pira" => UniqueIds(projects)

\* the first of two projects was replaced in place by one with other dates
C27_Witness ==
    /\ app = "pira" /\ op = "upsertProject"
    /\ Len(projects) = 2
    /\ projects[1] = arg
    /\ projects[1].id = 2 /\ projects[2].id = 1
    /\ projects[1].startMs # projects[1].dueMs

\* the valid dates of a project's four fields
ValidDatesOf(p) ==
    LET Of(field) == {parseDate(field[k]) : k \in 1..Len(field)}
    IN (Of(p.startDates) \cup Of(p.dueDates) \cup Of(p.stabilizationDates)
        \cup Of(p.completeDates)) \ {Null}

\* C28: getProjectSpan returns start = the earliest and end = the latest of
\* all valid dates across the project's start, due, stabilization and
\* complete fields, so start <= end; it returns {null, null} exactly when the
\* project has no valid date, and such projects get no row in the timeline.
C28_ProjectSpan ==
    op = "getProjectSpan" =>
        IF ValidDatesOf(arg) = {}
        THEN ret.span = [start |-> Null, end |-> Null] /\ ~ret.hasRow
        ELSE /\ ret.span.start \in ValidDatesOf(arg)
             /\ ret.span.end \in ValidDatesOf(arg)
             /\ \A d \in ValidDatesOf(arg) : ret.span.start <= d /\ d <= ret.span.end
             /\ ret.span.start <= ret.span.end
             /\ ret.hasRow

\* the earliest date stands last in the last field, after a malformed field
C28_Witness ==
    /\ op = "getProjectSpan"
    /\ arg.startDates = <<DateStr(2025, 3, 31)>>
    /\ arg.dueDates = <<EmptyStr, <<F(NaN, 3)>>>>
    /\ arg.completeDates = <<DateStr(2025, 1, 15), DateStr(2025, 1, 1)>>
    /\ ret.span.start = parseDate(DateStr(2025, 1, 1))
    /\ ret.span.end = parseDate(DateStr(2025, 3, 31))
    /\ ret.hasRow

\* a project without a valid date has no row
C28_WitnessNoRow ==
    /\ op = "getProjectSpan"
    /\ ValidDatesOf(arg) = {}
    /\ arg.dueDates = <<EmptyStr, <<F(NaN, 3)>>>>
    /\ ~ret.hasRow

\* C29: saveProjectFromForm with a missing name, start date or due date is
\* rejected with no state change: the projects list is unchanged, the form
\* stays open and the project being edited stays selected; with all three
\* present, an edit replaces exactly the project with the edited id and a
\* create appends exactly one project.
C29_SaveProjectFromForm ==
    [][ (app = "pm3" /\ op' = "saveProjectFromForm") =>
           LET Submitted(id) ==
                   [id |-> id, name |-> arg'.name, startDate |-> arg'.startDate,
                    dueDate |-> arg'.dueDate]
           IN IF arg'.name = "" \/ arg'.startDate = EmptyStr \/ arg'.dueDate = EmptyStr
              THEN /\ ret'.alert = "required"
                   /\ projects' = projects
                   /\ showAddProject /\ showAddProject'
                   /\ editingProject' = editingProject
              ELSE IF editingProject # NoProject
              THEN /\ Len(projects') = Len(projects)
                   /\ \A i \in 1..Len(projects) :
                         projects'[i] = IF projects[i].id = editingProject.id
                                        THEN Submitted(editingProject.id)
                                        ELSE projects[i]
              ELSE /\ Len(projects') = Len(projects) + 1
                   /\ SubSeq(projects', 1, Len(projects)) = projects
                   /\ projects'[Len(projects')] = Submitted(projects'[Len(projects')].id)
                   /\ \A i \in 1..Len(projects) : projects[i].id # projects'[Len(projects')].id
      ]_vars

\* the first of two projects was edited and saved
C29_Witness ==
    /\ app = "pm3" /\ op = "saveProjectFromForm" /\ ret.alert = "none"
    /\ Len(projects) = 2
    /\ projects[1].startDate = arg.startDate /\ projects[1].dueDate = arg.dueDate
    /\ projects[1].name = arg.name
    /\ projects[2].startDate # arg.startDate
    /\ projects[1].id # projects[2].id
    /\ ~showAddProject

\* a form without a start date was refused while a project was being edited
C29_WitnessRejected ==
    /\ app = "pm3" /\ op = "saveProjectFromForm" /\ ret.alert = "required"
    /\ arg.name = "A" /\ arg.startDate = EmptyStr
    /\ editingProject # NoProject
    /\ showAddProject
    /\ Len(projects) = 2

====
